---- MODULE Spec2Model ----
(***************************************************************************)
(* Visitor ledger of the Seeds visitor register: the check-in / check-out  *)
(* handlers of the successive server programs, run as concurrent requests  *)
(* against one vs_visitors table.                                          *)
(*                                                                         *)
(*   part000  src/unnamed/part_000  transactions + audit log               *)
(*   server8  src/server8.js        read, then conditional update          *)
(*   server5  src/server5.js        one conditional update                 *)
(*   server4  src/server4.js        one unconditional update               *)
(*   server1  src/server1.js:1-417  unconditional update, awaited mail     *)
(*                                                                         *)
(* A handler is cut at the statements that read or write vs_visitors:    *)
(* one action is such a statement together with the handler code up to    *)
(* the next one (transaction.begin, QR rendering, the composition of the  *)
(* mail and the response touch no row and are taken with the statement    *)
(* next to them; the audit insert of part000 is a step of its own).       *)
(* Every store call can fail.  Columns no modelled handler decides on     *)
(* (purpose, host_employee, created_by) are left out of the rows.         *)
(* The clock is read by the handlers (Date.now()) and by the store        *)
(* (GETDATE()); it moves on at check-outs, so that check-ins between two  *)
(* check-outs read the same value.                                        *)
(***************************************************************************)
EXTENDS Integers, Sequences, FiniteSets, TLC

\* ---------------------------------------------------------------- bounds
MaxReq == 2      \* requests that arrive in one behaviour
InitRows == 1    \* rows the table holds when the server starts

VARIABLES
  variant,             \* which server program is deployed
  sendCheckoutEmails,  \* process.env.SEND_CHECKOUT_EMAILS === 'true'
  clock,               \* GETDATE() and Date.now(): the current reading
  visitors,            \* vs_visitors, committed rows by id
  nextId,              \* IDENTITY(1,1) of vs_visitors
  txw,                 \* per request: the uncommitted write of its transaction
  req,                 \* per request: handler position, locals, response
  audit,               \* vs_audit_log
  stamps,              \* per id: committed writes of checkout_time so far
  started              \* requests arrived so far

\* The process around the handlers: start-up, the connection pool, the
\* operators, the middleware in front of the routes.
VARIABLES
  proc,                \* the Node process: start-up position, attempts, exit code
  pool,                \* sqlPool: "none" (undefined), "connected", "closed"
  users,               \* vs_users
  rateLimitStore,      \* the rate limiter's Map: address -> {count, startTime}
  passed,              \* per address: when the limiter called next()
  calls,               \* API calls served so far
  call                 \* the last API call: its input, its way, its response

apiVars == <<proc, pool, users, rateLimitStore, passed, calls, call>>

vars == <<variant, sendCheckoutEmails, clock, visitors, nextId, txw, req,
          audit, stamps, started, proc, pool, users, rateLimitStore, passed,
          calls, call>>

Reqs == 1..MaxReq
Ids == 1..(InitRows + MaxReq)
Targets == 0..(InitRows + 1)
Null == -1

\* ------------------------------------------------------------- the table
\* CREATE TABLE vs_visitors: status defaults to 'checked_in', checkin_time to
\* GETDATE(), checkout_time to NULL.
NoRow ==
  [visitor_name |-> "", mobile |-> <<>>, host_email |-> <<>>,
   qr_code_data |-> <<>>, checkin_time |-> Null,
   checkout_time |-> Null, status |-> "absent"]

\* Mutation: checkout_time declared DEFAULT GETDATE() like checkin_time.
NewRowStamped(body, qr_code_data, now) ==
  [visitor_name |-> body.visitor_name, mobile |-> body.mobile,
   host_email |-> body.host_email, qr_code_data |-> qr_code_data,
   checkin_time |-> now, checkout_time |-> 0,
   status |-> "checked_in"]

\* The inserted row: the columns of the INSERT from the request, checkin_time
\* from the store's clock at the insert.
NewRow(body, qr_code_data, now) ==
  [visitor_name |-> body.visitor_name, mobile |-> body.mobile,
   host_email |-> body.host_email, qr_code_data |-> qr_code_data,
   checkin_time |-> now, checkout_time |-> Null,
   status |-> "checked_in"]

Exists(row) == row.status # "absent"

\* ------------------------------------------------------------ the variants
UsesTx(v) == v = "part000"
ReadsBeforeCheckout(v) == v \in {"part000", "server8"}
HasCodes(v) == v \in {"part000", "server8", "server5"}

\* ------------------------------------------------------------ the QR payload
\* Math.random().toString(36).substr(2, 9)
Suffixes == {"k3x", "q7m"}

\* new Date(t).toISOString(): the instant as text.
IsoString(t) == "T" \o ToString(t)

\* `VIS-${Date.now()}-${Math.random().toString(36).substr(2, 9)}` ; server4 and
\* the first program of server1.js: `VIS-${Date.now()}`
QrId(v, now, suffix) ==
  IF v \in {"server4", "server1"} THEN "VIS-" \o ToString(now)
  ELSE "VIS-" \o ToString(now) \o "-" \o suffix

\* const qrData = { id, name: visitor_name, ..., checkin: new Date().toISOString() }
NoQr == [id |-> "", name |-> "", checkin |-> ""]
QrData(v, body, now, suffix) ==
  [id |-> QrId(v, now, suffix), name |-> body.visitor_name,
   checkin |-> IsoString(now)]

\* JSON.stringify(qrData) and JSON.parse of it: the text as its sequence of
\* keys and values.
JsonStringify(o) == <<"id", o.id, "name", o.name, "checkin", o.checkin>>
JsonParse(s) ==
  [k \in {s[2 * i - 1] : i \in 1..(Len(s) \div 2)} |->
     s[2 * (CHOOSE i \in 1..(Len(s) \div 2) : s[2 * i - 1] = k)]]

\* ---------------------------------------------------------------- inputs
Digits == {"0", "1", "2", "3", "4", "5", "6", "7", "8", "9"}
Mobile10 == <<"9", "8", "7", "6", "5", "4", "3", "2", "1", "0">>
Mobile9 == <<"9", "8", "7", "6", "5", "4", "3", "2", "1">>
Mobile11 == <<"9", "8", "7", "6", "5", "4", "3", "2", "1", "0", "0">>
MobileAlpha == <<"9", "8", "7", "6", "5", "4", "3", "2", "1", "x">>
GoodEmail == <<"h", "@", "x", ".", "c">>
BadEmail == <<"h", "@", "x">>

Alice ==
  [visitor_name |-> "alice", mobile |-> Mobile10, host_email |-> GoodEmail,
   purpose |-> "meeting", photo |-> "jpeg"]

CreateBodies ==
  { Alice,
    [Alice EXCEPT !.photo = "none"],
    [Alice EXCEPT !.photo = "notString"],
    [Alice EXCEPT !.visitor_name = ""],
    [Alice EXCEPT !.host_email = BadEmail],
    [Alice EXCEPT !.mobile = Mobile9],
    [Alice EXCEPT !.mobile = Mobile11],
    [Alice EXCEPT !.mobile = MobileAlpha],
    [Alice EXCEPT !.mobile = <<>>],
    [Alice EXCEPT !.mobile = Mobile9, !.purpose = ""] }

UpdateBodies ==
  { [visitor_name |-> "bob", mobile |-> <<>>, host_email |-> <<>>],
    [visitor_name |-> "", mobile |-> <<>>, host_email |-> <<>>],
    [visitor_name |-> "", mobile |-> Mobile9, host_email |-> BadEmail] }

NoBody ==
  [visitor_name |-> "", mobile |-> <<>>, host_email |-> <<>>,
   purpose |-> "", photo |-> "none"]

\* /^[^\s@]+@[^\s@]+\.[^\s@]+$/
EmailRegexTest(s) ==
  /\ \A k \in 1..Len(s) : s[k] # " "
  /\ \E i \in 2..Len(s) :
       /\ s[i] = "@"
       /\ \A k \in 1..Len(s) : s[k] = "@" => k = i
       /\ \E j \in (i + 2)..(Len(s) - 1) : s[j] = "."

\* /^[0-9]{10}$/
\* Mutation: the pattern without its end anchor, /^[0-9]{10}/.
MobileRegexUnanchored(s) ==
  Len(s) >= 10 /\ \A k \in 1..10 : s[k] \in Digits

MobileRegexTest(s) == Len(s) = 10 /\ \A k \in 1..Len(s) : s[k] \in Digits

\* The validation of POST /api/visitors: "OK" or the code of the 400 response.
ValidateCreate(v, body) ==
  IF v = "server1" THEN "OK"
  ELSE IF body.visitor_name = "" \/ body.host_email = <<>> \/ body.purpose = ""
    THEN "MISSING_FIELDS"
  ELSE IF v \in {"part000", "server8", "server5"} /\ ~EmailRegexTest(body.host_email)
    THEN "INVALID_EMAIL"
  ELSE IF v = "part000" /\ body.mobile # <<>> /\ ~MobileRegexTest(body.mobile)
    THEN "INVALID_MOBILE"
  ELSE "OK"

\* isNaN(visitorId) || visitorId <= 0 ; server8 and server5 test isNaN alone,
\* server4 and server1 hand req.params.id to the query as it is.
IdRejected(v, id) == v = "part000" /\ id <= 0

\* --------------------------------------------------------------- requests
NoResp == [status |-> 0, code |-> "", row |-> "none"]
Resp(status, code) == [status |-> status, code |-> code, row |-> "none"]
NoWrite == [id |-> 0, row |-> NoRow]

NoReq ==
  [kind |-> "none", pc |-> "idle", id |-> 0, body |-> NoBody, txn |-> "none",
   seen |-> NoRow, qr |-> NoQr, pre |-> "none", resp |-> NoResp,
   mail |-> "none", audited |-> "none"]

ErrorCode(v, kind) ==
  IF ~HasCodes(v) THEN ""
  ELSE CASE kind = "create" -> "VISITOR_CREATION_ERROR"
         [] kind = "checkout" -> "CHECKOUT_ERROR"
         [] kind = "update" -> "UPDATE_VISITOR_ERROR"
         [] OTHER -> "FETCH_VISITOR_ERROR"

Committed(id) == IF id \in Ids THEN visitors[id] ELSE NoRow

\* What a statement of request r reads: its own uncommitted write, else the
\* committed row.
ReadRow(r, id) == IF txw[r].id = id /\ id # 0 THEN txw[r].row ELSE Committed(id)

\* An uncommitted write holds the row's exclusive lock until commit or rollback.
LockedByOther(r, id) == \E o \in Reqs : o # r /\ txw[o].id = id /\ id # 0


\* ----------------------------------------------------------- SQL statements
\* WHERE id = @id AND status = 'checked_in' (part000, server8, server5);
\* WHERE id = @id (server4, server1).
\* Mutation: the status test dropped from the WHERE clause.
CheckoutWhereBlind(v, row) == Exists(row)

CheckoutWhere(v, row) ==
  /\ Exists(row)
  /\ v \in {"part000", "server8", "server5"} => row.status = "checked_in"

\* SET checkout_time = GETDATE(), status = 'checked_out'
\* Mutation: the SET list without checkout_time.
CheckoutSetStatusOnly(row, now) == [row EXCEPT !.status = "checked_out"]

CheckoutSet(row, now) ==
  [row EXCEPT !.checkout_time = now, !.status = "checked_out"]

\* SET visitor_name = @visitor_name, mobile = @mobile, host_email = @host_email
\* with @x = body.x || oldData.x
\* Mutation: the whole row written back from the snapshot read earlier.
UpdateSetFromSnapshot(row, old, body) ==
  [old EXCEPT
     !.visitor_name = IF body.visitor_name # "" THEN body.visitor_name
                      ELSE old.visitor_name]

UpdateSet(row, old, body) ==
  [row EXCEPT
     !.visitor_name = IF body.visitor_name # "" THEN body.visitor_name
                      ELSE old.visitor_name,
     !.mobile = IF body.mobile # <<>> THEN body.mobile ELSE old.mobile,
     !.host_email = IF body.host_email # <<>> THEN body.host_email
                    ELSE old.host_email]

\* visitor_name and host_email are NOT NULL columns.
InsertRejected(body) == body.visitor_name = "" \/ body.host_email = <<>>

\* The statement's effect: inside a transaction it stays uncommitted, outside
\* one it is committed at once.
\* Mutation: the statement sent on a pool connection, outside the transaction.
WriteOutsideTx(r, id, row) ==
  /\ visitors' = [visitors EXCEPT ![id] = row]
  /\ UNCHANGED txw

Write(r, id, row) ==
  IF UsesTx(variant)
    THEN /\ txw' = [txw EXCEPT ![r] = [id |-> id, row |-> row]]
         /\ UNCHANGED visitors
    ELSE /\ visitors' = [visitors EXCEPT ![id] = row]
         /\ UNCHANGED txw

\* ------------------------------------------------------- leaving a handler
\* The handler has returned: its locals are gone, the request as it was
\* received and its answer stay.
Done(q) == [q EXCEPT !.pc = "done", !.seen = NoRow, !.qr = NoQr]

Answer(q, status, code) ==
  Done([q EXCEPT !.txn = IF @ = "active" THEN "rolledback" ELSE @,
                 !.resp = Resp(status, code)])

\* catch (err) { await transaction.rollback().catch(() => {}); res.status(500) }
Caught(v, q) == Answer(q, 500, ErrorCode(v, q.kind))

\* The answers of: await transaction.rollback(); return res.status(s).json({code})
\* (a rollback that throws lands in the catch block).
Refusals(v, q, status, code) ==
  {Answer(q, status, IF HasCodes(v) THEN code ELSE "")}
    \cup (IF UsesTx(v) THEN {Caught(v, q)} ELSE {})

\* The request leaves with answer a; what its transaction wrote is rolled back.
Leave(r, a) ==
  /\ req' = [req EXCEPT ![r] = a]
  /\ txw' = [txw EXCEPT ![r] = NoWrite]

At(r, kind, pc) == req[r].kind = kind /\ req[r].pc = pc

\* ------------------------------------------------------------------- mail
\* Composing mailOptions throws when Buffer.from / photo_base64.split meets a
\* photo that is no string; server1 builds the attachment without testing that
\* there is a photo.
ComposeThrows(v, body) ==
  \/ body.photo = "notString"
  \/ v = "server1" /\ body.photo = "none"

\* part000, server8 and server5 compose inside try { } catch (emailErr) { }.
\* Mutation: part000 composing outside the try block.
ComposeUnguarded(v) == v \in {"server8", "server5"}

ComposeGuarded(v) == v \in {"part000", "server8", "server5"}

\* server1: await transporter.sendMail(mailOptions)
MailAwaited(v) == v = "server1"

Success(v) == Resp(200, IF HasCodes(v) THEN "OK" ELSE "")

\* POST /api/visitors after the insert (and its commit): compose the mail, hand
\* it to the transport, answer.
CreateAnswer(v, q) ==
  IF ComposeThrows(v, q.body)
    THEN IF ComposeGuarded(v)
           THEN Done([q EXCEPT !.mail = "composeError", !.resp = Success(v)])
           ELSE Caught(v, q)
    ELSE IF MailAwaited(v)
           THEN [q EXCEPT !.mail = "pending", !.pc = "awaitmail"]
           ELSE Done([q EXCEPT !.mail = "pending", !.resp = Success(v)])

\* if (visitor.host_email && process.env.SEND_CHECKOUT_EMAILS === 'true')
\* Mutation: the test of SEND_CHECKOUT_EMAILS left out.
CheckoutMailsAlways(v, seen, flag) ==
  ReadsBeforeCheckout(v) /\ seen.host_email # <<>>

CheckoutMails(v, seen, flag) ==
  ReadsBeforeCheckout(v) /\ seen.host_email # <<>> /\ flag

\* PUT /api/visitors/:id/checkout after the update (and its commit).
CheckoutAnswer(v, q, flag) ==
  Done([q EXCEPT !.mail = IF CheckoutMails(v, q.seen, flag) THEN "pending"
                          ELSE "none",
                 !.resp = Success(v)])

\* PUT /api/visitors/:id after the commit.
UpdateAnswer(v, q) == Done([q EXCEPT !.resp = Success(v)])

AnswerOf(v, q, flag) ==
  CASE q.kind = "create" -> CreateAnswer(v, q)
    [] q.kind = "checkout" -> CheckoutAnswer(v, q, flag)
    [] OTHER -> UpdateAnswer(v, q)

\* The promise of transporter.sendMail settles (it may also never do so);
\* server1 answers only now.
MailSettled(v, q, outcome) ==
  IF q.pc = "awaitmail"
    THEN IF outcome = "sent"
           THEN Done([q EXCEPT !.mail = outcome, !.resp = Success(v)])
           ELSE Caught(v, [q EXCEPT !.mail = outcome])
    ELSE [q EXCEPT !.mail = outcome]

MailSettle(r) ==
  /\ req[r].mail = "pending"
  /\ \E outcome \in {"sent", "failed"} :
       req' = [req EXCEPT ![r] = MailSettled(variant, @, outcome)]
  /\ UNCHANGED apiVars
  /\ UNCHANGED <<variant, sendCheckoutEmails, clock, visitors, nextId, txw,
                 audit, stamps, started>>

\* --------------------------------------------------------------- arrivals
\* pre records what held when the request arrived: for a check-out the
\* committed status of its row, for a read whether its id had already been
\* returned by a successful check-in.
Returned(id) ==
  \E c \in Reqs : /\ req[c].kind = "create" /\ req[c].id = id
                  /\ req[c].resp.status = 200

Arrive(kind, id, body) ==
  [NoReq EXCEPT !.kind = kind, !.id = id, !.body = body,
                !.pre = CASE kind = "checkout" -> Committed(id).status
                          [] kind = "get" /\ Returned(id) -> "returned"
                          [] OTHER -> "none"]

\* await transaction.begin()
Begun(v, q, pc) ==
  [q EXCEPT !.pc = pc, !.txn = IF UsesTx(v) THEN "active" ELSE "none"]

\* POST /api/visitors up to the insert: validation, transaction.begin(),
\* qrData, QRCode.toDataURL.
CreateArrive(body) ==
  /\ started < MaxReq
  /\ LET r == started + 1
         v == ValidateCreate(variant, body)
         a == Arrive("create", 0, body)
     IN \/ /\ v # "OK"
           /\ req' = [req EXCEPT ![r] = Answer(a, 400, v)]
        \/ /\ v = "OK"
           /\ \E suffix \in Suffixes :
                req' = [req EXCEPT ![r] =
                          [Begun(variant, a, "insert") EXCEPT
                             !.qr = QrData(variant, body, clock, suffix)]]
        \/ /\ v = "OK"
           /\ \E q \in {a, Begun(variant, a, "insert")} :
                req' = [req EXCEPT ![r] = Caught(variant, q)]
  /\ started' = started + 1
  /\ UNCHANGED apiVars
  /\ UNCHANGED <<variant, sendCheckoutEmails, clock, visitors, nextId, txw,
                 audit, stamps>>

\* PUT /api/visitors/:id/checkout up to its first statement.
CheckoutArrive(id) ==
  /\ started < MaxReq
  /\ LET r == started + 1
         a == Arrive("checkout", id, NoBody)
     IN \/ req' = [req EXCEPT ![r] =
                     IF IdRejected(variant, id) THEN Answer(a, 400, "INVALID_ID")
                     ELSE Begun(variant, a,
                                IF ReadsBeforeCheckout(variant) THEN "select"
                                ELSE "update")]
        \/ /\ UsesTx(variant) /\ ~IdRejected(variant, id)
           /\ req' = [req EXCEPT ![r] = Caught(variant, a)]
  /\ started' = started + 1
  /\ UNCHANGED apiVars
  /\ UNCHANGED <<variant, sendCheckoutEmails, clock, visitors, nextId, txw,
                 audit, stamps>>

\* PUT /api/visitors/:id up to its first statement.
UpdateArrive(id, body) ==
  /\ started < MaxReq
  /\ UsesTx(variant)
  /\ LET r == started + 1
         a == Arrive("update", id, [NoBody EXCEPT
                       !.visitor_name = body.visitor_name,
                       !.mobile = body.mobile,
                       !.host_email = body.host_email])
     IN \/ req' = [req EXCEPT ![r] =
                     IF IdRejected(variant, id) THEN Answer(a, 400, "INVALID_ID")
                     ELSE Begun(variant, a, "select")]
        \/ /\ ~IdRejected(variant, id)
           /\ req' = [req EXCEPT ![r] = Caught(variant, a)]
  /\ started' = started + 1
  /\ UNCHANGED apiVars
  /\ UNCHANGED <<variant, sendCheckoutEmails, clock, visitors, nextId, txw,
                 audit, stamps>>

\* GET /api/visitors/:id : one SELECT of the committed row.
GetAnswer(v, a, row) ==
  IF ~Exists(row) THEN Answer(a, 404, "VISITOR_NOT_FOUND")
  ELSE Done([a EXCEPT !.resp = [status |-> 200, code |-> "OK",
                                row |-> row.status]])

GetById(id) ==
  /\ started < MaxReq
  /\ variant \in {"part000", "server8", "server5"}
  /\ LET r == started + 1
         a == Arrive("get", id, NoBody)
     IN \/ req' = [req EXCEPT ![r] =
                     IF IdRejected(variant, id) THEN Answer(a, 400, "INVALID_ID")
                     ELSE GetAnswer(variant, a, Committed(id))]
        \/ /\ ~IdRejected(variant, id)
           /\ req' = [req EXCEPT ![r] = Caught(variant, a)]
  /\ started' = started + 1
  /\ UNCHANGED apiVars
  /\ UNCHANGED <<variant, sendCheckoutEmails, clock, visitors, nextId, txw,
                 audit, stamps>>

\* ------------------------------------------------------------------ check-in
\* INSERT INTO vs_visitors (...) OUTPUT INSERTED.id ; req.user is never set on
\* this route, so no audit event is written.  Without a transaction the
\* handler goes straight on to the mail and the response.
CreateInsert(r) ==
  /\ At(r, "create", "insert")
  /\ \/ /\ ~InsertRejected(req[r].body)
        /\ Write(r, nextId,
                 NewRow(req[r].body, JsonStringify(req[r].qr), clock))
        /\ nextId' = nextId + 1
        /\ LET q == [req[r] EXCEPT !.id = nextId]
           IN req' = [req EXCEPT ![r] =
                        IF UsesTx(variant) THEN [q EXCEPT !.pc = "commit"]
                        ELSE CreateAnswer(variant, q)]
     \/ Leave(r, Caught(variant, req[r])) /\ UNCHANGED <<visitors, nextId>>
  /\ UNCHANGED apiVars
  /\ UNCHANGED <<variant, sendCheckoutEmails, clock, audit, stamps, started>>

\* ----------------------------------------------------------------- check-out
\* SELECT visitor_name, host_email, status FROM vs_visitors WHERE id = @id
CheckoutSelected(v, q, row) ==
  IF ~Exists(row) THEN Refusals(v, q, 404, "VISITOR_NOT_FOUND")
  ELSE IF row.status = "checked_out"
    THEN Refusals(v, q, 400, "ALREADY_CHECKED_OUT")
  ELSE {[q EXCEPT !.seen = row, !.pc = "update"]}

CheckoutSelect(r) ==
  /\ At(r, "checkout", "select")
  /\ \E a \in CheckoutSelected(variant, req[r], ReadRow(r, req[r].id))
               \cup {Caught(variant, req[r])} :
       IF a.pc = "done" THEN Leave(r, a)
       ELSE req' = [req EXCEPT ![r] = a] /\ UNCHANGED txw
  /\ UNCHANGED apiVars
  /\ UNCHANGED <<variant, sendCheckoutEmails, clock, visitors, nextId, audit,
                 stamps, started>>

\* UPDATE vs_visitors SET ... WHERE ... ; rowsAffected decides the answer.
\* The row's lock is awaited first.
CheckoutUpdate(r) ==
  /\ At(r, "checkout", "update")
  /\ ~LockedByOther(r, req[r].id)
  /\ LET id == req[r].id
         row == ReadRow(r, id)
     IN \/ /\ CheckoutWhere(variant, row)
           /\ Write(r, id, CheckoutSet(row, clock))
           /\ clock' = clock + 1
           /\ req' = [req EXCEPT ![r] =
                 IF UsesTx(variant) THEN [@ EXCEPT !.pc = "audit"]
                 ELSE CheckoutAnswer(variant, @, sendCheckoutEmails)]
           /\ stamps' = IF UsesTx(variant) THEN stamps
                        ELSE [stamps EXCEPT ![id] = @ + 1]
        \/ /\ ~CheckoutWhere(variant, row)
           /\ \E a \in Refusals(variant, req[r], 404, "VISITOR_NOT_FOUND") :
                Leave(r, a)
           /\ UNCHANGED <<visitors, stamps, clock>>
        \/ Leave(r, Caught(variant, req[r])) /\ UNCHANGED <<visitors, stamps, clock>>
  /\ UNCHANGED apiVars
  /\ UNCHANGED <<variant, sendCheckoutEmails, nextId, audit, started>>

\* -------------------------------------------------------------------- update
\* SELECT visitor_name, mobile, host_employee, host_email, purpose ... WHERE id = @id
UpdateSelected(v, q, row) ==
  IF ~Exists(row) THEN Refusals(v, q, 404, "VISITOR_NOT_FOUND")
  ELSE {[q EXCEPT !.seen = row, !.pc = "update"]}

UpdateSelect(r) ==
  /\ At(r, "update", "select")
  /\ \E a \in UpdateSelected(variant, req[r], ReadRow(r, req[r].id))
               \cup {Caught(variant, req[r])} :
       IF a.pc = "done" THEN Leave(r, a)
       ELSE req' = [req EXCEPT ![r] = a] /\ UNCHANGED txw
  /\ UNCHANGED apiVars
  /\ UNCHANGED <<variant, sendCheckoutEmails, clock, visitors, nextId, audit,
                 stamps, started>>

\* UPDATE vs_visitors SET visitor_name = ..., updated_at = GETDATE() WHERE id = @id
UpdateWrite(r) ==
  /\ At(r, "update", "update")
  /\ ~LockedByOther(r, req[r].id)
  /\ LET id == req[r].id
         row == ReadRow(r, id)
     IN \/ /\ Exists(row)
           /\ Write(r, id, UpdateSet(row, req[r].seen, req[r].body))
           /\ req' = [req EXCEPT ![r].pc = "audit"]
        \/ /\ ~Exists(row)
           /\ \E a \in Refusals(variant, req[r], 404, "VISITOR_NOT_FOUND") :
                Leave(r, a)
           /\ UNCHANGED visitors
        \/ Leave(r, Caught(variant, req[r])) /\ UNCHANGED visitors
  /\ UNCHANGED apiVars
  /\ UNCHANGED <<variant, sendCheckoutEmails, clock, nextId, audit, stamps,
                 started>>

\* ------------------------------------------------------------ transactions
\* What await logAudit(...) gives its caller: the INSERT INTO vs_audit_log on
\* a pool connection of its own succeeds (ok) or fails, and the function's
\* catch block logs the failure and returns.
\* Mutation: logAudit without its try and catch.
logAuditRethrows(ok) == IF ok THEN "written" ELSE "thrown"

logAudit(ok) == IF ok THEN "written" ELSE "failed"

AuditAction(kind) ==
  CASE kind = "checkout" -> "CHECKOUT_VISITOR"
    [] kind = "update" -> "UPDATE_VISITOR"
    [] OTHER -> "LOGIN"

\* The audit log after the call.
Logged(outcome, action, record_id) ==
  IF outcome = "written"
  THEN audit \cup {[action |-> action, record_id |-> record_id]}
  ELSE audit

\* await logAudit(req.user.id, 'CHECKOUT_VISITOR' / 'UPDATE_VISITOR', ...)
\* between the UPDATE and the commit; an exception would land in the
\* handler's catch block.  POST /api/visitors logs only if (req.user), which
\* no middleware of that route sets, and goes from the INSERT to the commit.
LogAudit(r) ==
  /\ req[r].pc = "audit"
  /\ \E ok \in BOOLEAN :
       LET outcome == logAudit(ok)
           q == [req[r] EXCEPT !.audited = outcome]
       IN /\ ok => pool = "connected"
          /\ audit' = Logged(outcome, AuditAction(q.kind), q.id)
          /\ IF outcome = "thrown" THEN Leave(r, Caught(variant, q))
             ELSE /\ req' = [req EXCEPT ![r] = [q EXCEPT !.pc = "commit"]]
                  /\ UNCHANGED txw
  /\ UNCHANGED apiVars
  /\ UNCHANGED <<variant, sendCheckoutEmails, clock, visitors, nextId, stamps,
                 started>>

\* await transaction.commit(); then the mail and the response.
Commit(r) ==
  /\ req[r].pc = "commit"
  /\ \/ /\ visitors' = [visitors EXCEPT ![txw[r].id] = txw[r].row]
        /\ txw' = [txw EXCEPT ![r] = NoWrite]
        /\ req' = [req EXCEPT ![r] =
              AnswerOf(variant, [@ EXCEPT !.txn = "committed"], sendCheckoutEmails)]
        /\ stamps' = IF req[r].kind = "checkout"
                       THEN [stamps EXCEPT ![txw[r].id] = @ + 1]
                       ELSE stamps
     \/ Leave(r, Caught(variant, req[r])) /\ UNCHANGED <<visitors, stamps>>
  /\ UNCHANGED apiVars
  /\ UNCHANGED <<variant, sendCheckoutEmails, clock, nextId, audit, started>>

\* ============================================================ the process
\* The programs as deployed processes: start-up, the connection pool, the
\* middleware in front of the routes, login.  One API call is one action:
\* the middleware chain of its route and, if the chain lets it through, its
\* handler.  "server1b" is the second program of src/server1.js (lines 418 on);
\* its routes are those of server8 but for the paths its database-health
\* middleware lets through.
MaxCalls == 2       \* API calls served in one behaviour
MaxRequests == 1    \* RATE_LIMIT_MAX_REQUESTS of the deployment
MaxPage == 2        \* page numbers asked for
MaxLimit == 1       \* page sizes asked for

maxRetries == 5     \* connectWithRetry(maxRetries = 5, initialDelay = 5000)
initialDelay == 5000
MaxDelay == 30000   \* delay = Math.min(delay * 1.5, 30000)

Retries(v) == v \in {"part000", "server8", "server1b", "server5"}
Handlers(v) == IF v = "server1b" THEN "server8" ELSE v

\* delay and waits are connectWithRetry's: its variable delay, and the
\* timeouts it has awaited so far.
Running ==
  [phase |-> "connecting", attempt |-> 1, exit |-> Null, transporter |-> "open",
   delay |-> initialDelay, waits |-> <<>>]

\* delay = Math.min(delay * 1.5, 30000); server5.js waits its parameter
\* delay = 5000 every time.  (The products met within maxRetries attempts
\* are whole numbers.)
NextDelay(v, delay) ==
  IF v = "server5" THEN delay
  ELSE IF (delay * 3) \div 2 < MaxDelay THEN (delay * 3) \div 2 ELSE MaxDelay

\* sql.connect, and in all but server5.js the test query after it
Outcomes(v) ==
  IF v = "server5" THEN {"ok", "connectFails"}
  ELSE {"ok", "connectFails", "queryFails"}

\* ---------------------------------------------------------------- start-up
\* Mutation: the loop bound tested with attempt > maxRetries.
LastAttemptLate(attempt) == attempt = maxRetries + 1

LastAttempt(attempt) == attempt = maxRetries

\* One pass of the loop of connectWithRetry: sql.connect, then the test query.
\* The last failure throws; initSqlConnection rethrows and the catch of the
\* start-up promise calls process.exit(1).
ConnectAttempt ==
  /\ Retries(variant)
  /\ proc.phase = "connecting"
  /\ \E outcome \in Outcomes(variant) :
       /\ pool' = IF outcome = "connectFails" THEN pool ELSE "connected"
       /\ proc' = IF outcome = "ok" THEN [proc EXCEPT !.phase = "connected"]
                  ELSE IF LastAttempt(proc.attempt)
                    THEN [proc EXCEPT !.phase = "exited", !.exit = 1]
                  ELSE [proc EXCEPT !.phase = "waiting"]
  /\ UNCHANGED <<users, rateLimitStore, passed, calls, call>>
  /\ UNCHANGED <<variant, sendCheckoutEmails, clock, visitors, nextId, txw,
                 req, audit, stamps, started>>

\* await new Promise(resolve => setTimeout(resolve, delay)), then the next pass.
Backoff ==
  /\ proc.phase = "waiting"
  /\ proc' = [proc EXCEPT !.phase = "connecting", !.attempt = @ + 1,
                          !.waits = Append(@, proc.delay),
                          !.delay = NextDelay(variant, @)]
  /\ UNCHANGED <<pool, users, rateLimitStore, passed, calls, call>>
  /\ UNCHANGED <<variant, sendCheckoutEmails, clock, visitors, nextId, txw,
                 req, audit, stamps, started>>

\* The rest of initSqlConnection (transporter.verify, whose failure is only
\* logged, and createTables) and the then/catch of the start-up promise:
\* app.listen, or process.exit(1).
Listen ==
  /\ Retries(variant)
  /\ proc.phase = "connected"
  /\ \E tablesOk \in BOOLEAN :
       proc' = IF tablesOk
               THEN [Running EXCEPT !.phase = "listening", !.attempt = 0]
               ELSE [proc EXCEPT !.phase = "exited", !.exit = 1]
  /\ UNCHANGED <<pool, users, rateLimitStore, passed, calls, call>>
  /\ UNCHANGED <<variant, sendCheckoutEmails, clock, visitors, nextId, txw,
                 req, audit, stamps, started>>

\* startServer of the first program of server1.js: initSqlConnection catches
\* whatever sql.connect, transporter.verify or createTables throw and
\* returns; app.listen follows.
startServer ==
  /\ variant = "server1"
  /\ proc.phase = "connecting"
  /\ \E connected \in BOOLEAN :
       pool' = IF connected THEN "connected" ELSE pool
  /\ proc' = [proc EXCEPT !.phase = "listening", !.attempt = 0]
  /\ UNCHANGED <<users, rateLimitStore, passed, calls, call>>
  /\ UNCHANGED <<variant, sendCheckoutEmails, clock, visitors, nextId, txw,
                 req, audit, stamps, started>>

\* gracefulShutdown up to its await: sqlPool.close() marks the pool as not
\* connected at once and drains it, transporter.close() closes the mail
\* transport; the listener is not closed, requests keep arriving until
\* process.exit, and the handlers that are running are not waited for.
gracefulShutdown ==
  /\ Retries(variant)
  /\ proc.phase = "listening"
  /\ proc' = [proc EXCEPT !.phase = "closing", !.transporter = "closed"]
  /\ pool' = IF pool = "connected" THEN "closed" ELSE pool
  /\ UNCHANGED <<users, rateLimitStore, passed, calls, call>>
  /\ UNCHANGED <<variant, sendCheckoutEmails, clock, visitors, nextId, txw,
                 req, audit, stamps, started>>

\* await Promise.allSettled(shutdownPromises); process.exit(0)
Exit ==
  /\ proc.phase = "closing"
  /\ proc' = [proc EXCEPT !.phase = "exited", !.exit = 0]
  /\ UNCHANGED <<pool, users, rateLimitStore, passed, calls, call>>
  /\ UNCHANGED <<variant, sendCheckoutEmails, clock, visitors, nextId, txw,
                 req, audit, stamps, started>>

Serving == proc.phase \in {"listening", "closing"}

\* --------------------------------------------------------------- the routes
Kinds ==
  {"login", "create", "checkout", "list", "get", "stats", "export", "health"}

\* The routes followed here: of the first program of server1.js, whose
\* handlers differ, only check-out and health.
Served(v) == IF v = "server1" THEN {"checkout", "health"} ELSE Kinds

\* Which routes the database-health middleware stands in front of.  part_000
\* mounts it on '/api/*' ahead of every route; server8 and server1b mount it
\* after login and health and let the listed paths through.
DbGated(v, kind) ==
  CASE v = "part000" -> TRUE
    [] v = "server8" -> kind \notin {"login", "health"}
    [] v = "server1b" -> kind \notin {"login", "health", "create", "list"}
    [] OTHER -> FALSE

RateLimited(v) == v = "part000"

\* Routes registered with authenticateToken.
NeedsToken(v, kind) ==
  IF v = "server1" THEN kind \notin {"login", "health"}
  ELSE kind \in {"checkout", "list", "get", "stats", "export"}

\* Routes registered with requireRole(['admin']).
NeedsAdmin(v, kind) == v # "server1" /\ kind \in {"stats", "export"}

\* ---------------------------------------------------------------- tokens
NoToken == [sig |-> "none", expired |-> FALSE, role |-> "", id |-> 0]

\* Authorization headers: none, or a token with a good or a forged
\* signature, in or past its lifetime, carrying a role.
Token(sig, expired, role) ==
  [sig |-> sig, expired |-> expired, role |-> role, id |-> 0]

Tokens ==
  {NoToken, Token("bad", FALSE, "admin"), Token("good", TRUE, "admin"),
   Token("good", FALSE, "reception"), Token("good", FALSE, "admin")}

Pass == [status |-> 0, code |-> ""]
Refused(v, status, code) ==
  [status |-> status, code |-> IF v = "server1" THEN "" ELSE code]

\* if (!sqlPool || !sqlPool.connected) 503
databaseHealthCheck(v, kind, p) ==
  IF DbGated(v, kind) /\ p # "connected"
  THEN Refused(v, 503, "DATABASE_UNAVAILABLE") ELSE Pass

\* The limiter's entry after a request: count 0 stands for no entry; elapsed
\* is now - data.startTime > windowMs.  The clean-up pass only removes
\* entries whose window has elapsed, never the entry just written.
RateCount(count, elapsed) == IF count = 0 \/ elapsed THEN 1 ELSE count + 1

\* Mutation: data.count compared with maxRequests before it is incremented.
rateLimitLate(maxRequests, count, elapsed) ==
  IF count # 0 /\ ~elapsed /\ count > maxRequests
  THEN Refused("part000", 429, "RATE_LIMIT_EXCEEDED") ELSE Pass

rateLimit(maxRequests, count, elapsed) ==
  IF count # 0 /\ ~elapsed /\ count + 1 > maxRequests
  THEN Refused("part000", 429, "RATE_LIMIT_EXCEEDED") ELSE Pass

\* Mutation: a token past its lifetime is let through.
authenticateTokenLax(v, token) ==
  CASE token.sig = "none" -> Refused(v, 401, "NO_TOKEN")
    [] token.sig = "bad" -> Refused(v, 403, "INVALID_TOKEN")
    [] OTHER -> Pass

\* jwt.verify(token, JWT_SECRET): the signature is verified before the
\* lifetime.
authenticateToken(v, token) ==
  CASE token.sig = "none" -> Refused(v, 401, "NO_TOKEN")
    [] token.sig = "bad" -> Refused(v, 403, "INVALID_TOKEN")
    [] token.expired -> Refused(v, IF v = "server1" THEN 403 ELSE 401,
                                "TOKEN_EXPIRED")
    [] OTHER -> Pass

requireRole(v, roles, token) ==
  IF token.role \in roles THEN Pass
  ELSE Refused(v, 403, "INSUFFICIENT_PERMISSIONS")

\* The middleware chain of a route, in the order of registration: the
\* response of the first middleware that answers, or Pass.
Chain(v, kind, token, p, count, elapsed) ==
  LET db == databaseHealthCheck(v, kind, p)
      rl == IF RateLimited(v) THEN rateLimit(MaxRequests, count, elapsed)
            ELSE Pass
      au == IF NeedsToken(v, kind) THEN authenticateToken(v, token) ELSE Pass
      ro == IF NeedsAdmin(v, kind) THEN requireRole(v, {"admin"}, token)
            ELSE Pass
  IN IF db # Pass THEN db
     ELSE IF rl # Pass THEN rl
     ELSE IF au # Pass THEN au
     ELSE ro

\* The limiter counts a request only if it is reached.
Counted(v, kind, p, count, elapsed) ==
  IF RateLimited(v) /\ databaseHealthCheck(v, kind, p) = Pass
  THEN RateCount(count, elapsed) ELSE count

\* The addresses requests come from (req.ip); the calls of the API
\* specifications all come from Caller, and those specifications do not
\* follow the time: elapsed stands for now - data.startTime > windowMs.
Addresses == {1, 2}
Caller == 1
NoEntry == [count |-> 0, startTime |-> 0]

NoCall ==
  [kind |-> "none", token |-> NoToken, arg |-> <<>>, pool |-> "none",
   ran |-> FALSE, resp |-> Pass, out |-> <<>>]

\* An API call arrives while the listener is up.
Arrives(kind) ==
  /\ Serving
  /\ calls < MaxCalls
  /\ kind \in Served(variant)

Arrival(kind, token) ==
  [NoCall EXCEPT !.kind = kind, !.token = token, !.pool = pool]

\* The call as the chain hands it to the handler.
Handed(kind, token) == [Arrival(kind, token) EXCEPT !.ran = TRUE]

\* The chain lets the call through to its handler ...
Through(kind, token, elapsed) ==
  /\ Chain(variant, kind, token, pool, rateLimitStore[Caller].count, elapsed)
       = Pass
  /\ rateLimitStore' =
       [rateLimitStore EXCEPT ![Caller].count =
          Counted(variant, kind, pool, @, elapsed)]
  /\ calls' = calls + 1

\* ... or one of its middleware answers it.
Turned(kind, token, elapsed) ==
  LET r == Chain(variant, kind, token, pool, rateLimitStore[Caller].count,
                 elapsed)
  IN /\ r # Pass
     /\ call' = [Arrival(kind, token) EXCEPT !.resp = r]
     /\ rateLimitStore' =
          [rateLimitStore EXCEPT ![Caller].count =
             Counted(variant, kind, pool, @, elapsed)]
     /\ calls' = calls + 1

\* -------------------------------------------------------------------- login
UserIds == 1..4

NoUser ==
  [username |-> "", email |-> "", password |-> <<>>, role |-> "",
   is_active |-> Null, last_login |-> Null]

\* bcrypt.hash and bcrypt.compare: a hash is made of the password and is
\* not the password.
Hash(password) == <<"$2b$10$", password>>
bcryptCompare(password, hash) == hash = Hash(password)

\* vs_users: username and email are each unique, but the username of one
\* operator may be the email of another; is_active is a nullable BIT.
Admin ==
  [username |-> "admin", email |-> "admin@x", password |-> Hash("admin123"),
   role |-> "admin", is_active |-> 1, last_login |-> Null]
Bob ==
  [username |-> "bob", email |-> "bob@x", password |-> Hash("bobpw"),
   role |-> "reception", is_active |-> 1, last_login |-> Null]
Carol ==
  [username |-> "bob@x", email |-> "carol@x", password |-> Hash("carolpw"),
   role |-> "reception", is_active |-> 1, last_login |-> Null]

Dave ==
  [username |-> "dave", email |-> "dave@x", password |-> Hash("davepw"),
   role |-> "reception", is_active |-> Null, last_login |-> Null]

\* The operators: bob is disabled, carol's username is bob's email, dave's
\* is_active was never set.
InitUsers ==
  [i \in UserIds |-> CASE i = 1 -> Admin
                       [] i = 2 -> [Bob EXCEPT !.is_active = 0]
                       [] i = 3 -> Carol
                       [] OTHER -> Dave]

Usernames == {"", "admin", "bob", "bob@x", "dave", "nobody"}
Passwords == {"", "admin123", "bobpw", "davepw"}

\* Mutation: the lookup without AND is_active = 1.
LoginMatchesAny(v, username) ==
  {i \in UserIds : /\ users[i].username # ""
                   /\ users[i].username = username \/ users[i].email = username}

\* WHERE (username = @username OR email = @username) [AND is_active = 1]
LoginMatches(v, username) ==
  {i \in UserIds : /\ users[i].username # ""
                   /\ users[i].username = username \/ users[i].email = username
                   /\ v = "part000" => users[i].is_active = 1}

\* user.is_active === 0 || user.is_active === false, on
\* COALESCE(is_active, 1); part_000 has no such test.
Disabled(v, user) == v # "part000" /\ user.is_active = 0

\* The update of last_login stands inside its own try and catch.
LastLoginGuarded(v) == v # "part000"

\* jwt.sign({id, username, email, role}, JWT_SECRET, {expiresIn})
Sign(u) ==
  [sig |-> "good", expired |-> FALSE, role |-> users[u].role, id |-> u]

LoginEnd(c, status, code, u, compares, token) ==
  [c EXCEPT !.resp = [status |-> status, code |-> code],
            !.out = [user |-> u, compares |-> compares, token |-> token,
                     audited |-> "none"]]

\* Mutation: the not-found branch answers without comparing.
MissNoCompare(c, password) ==
  LoginEnd(c, 401, "INVALID_CREDENTIALS", 0, 0, NoToken)

\* if (!result.recordset.length): await bcrypt.compare(password, dummy hash),
\* whose result is not looked at, then 401.
Miss(c, password) ==
  LoginEnd(c, 401, "INVALID_CREDENTIALS", 0, 1, NoToken)

\* const user = result.recordset[0] and what follows; the order of the
\* record set is the store's.
LoginAs(c, u, password) ==
  IF Disabled(variant, users[u])
  THEN /\ call' = LoginEnd(c, 403, "ACCOUNT_DISABLED", u, 0, NoToken)
       /\ UNCHANGED <<users, audit>>
  ELSE IF ~bcryptCompare(password, users[u].password)
  THEN /\ call' = LoginEnd(c, 401, "INVALID_CREDENTIALS", u, 1, NoToken)
       /\ UNCHANGED <<users, audit>>
  ELSE \/ /\ users' = [users EXCEPT ![u].last_login = clock]
          /\ IF variant = "part000"
             THEN \E ok \in BOOLEAN :
                    LET outcome == logAudit(ok)
                        end == IF outcome = "thrown"
                               THEN LoginEnd(c, 500, "INTERNAL_ERROR", u, 1,
                                             NoToken)
                               ELSE LoginEnd(c, 200, "OK", u, 1, Sign(u))
                    IN /\ audit' = Logged(outcome, "LOGIN", u)
                       /\ call' = [end EXCEPT !.out.audited = outcome]
             ELSE /\ audit' = audit
                  /\ call' = LoginEnd(c, 200, "OK", u, 1, Sign(u))
       \/ /\ LastLoginGuarded(variant)
          /\ call' = LoginEnd(c, 200, "OK", u, 1, Sign(u))
          /\ UNCHANGED <<users, audit>>
       \/ /\ ~LastLoginGuarded(variant)
          /\ call' = LoginEnd(c, 500, "INTERNAL_ERROR", u, 1, NoToken)
          /\ UNCHANGED <<users, audit>>

LoginBody(c, username, password) ==
  IF username = "" \/ password = ""
  THEN /\ call' = LoginEnd(c, 400, "MISSING_CREDENTIALS", 0, 0, NoToken)
       /\ UNCHANGED <<users, audit>>
  ELSE \/ /\ call' = LoginEnd(c, 500, "INTERNAL_ERROR", 0, 0, NoToken)
          /\ UNCHANGED <<users, audit>>
       \/ /\ pool = "connected"
          /\ LoginMatches(variant, username) = {}
          /\ call' = Miss(c, password)
          /\ UNCHANGED <<users, audit>>
       \/ /\ pool = "connected"
          /\ \E u \in LoginMatches(variant, username) : LoginAs(c, u, password)

\* POST /api/login
Login(username, password) ==
  /\ Retries(variant)
  /\ Arrives("login")
  /\ \E elapsed \in BOOLEAN :
       \/ /\ Through("login", NoToken, elapsed)
          /\ LoginBody([Handed("login", NoToken) EXCEPT
                          !.arg = <<username, password>>], username, password)
       \/ Turned("login", NoToken, elapsed) /\ UNCHANGED <<users, audit>>
  /\ UNCHANGED <<proc, pool, visitors, nextId, passed>>
  /\ UNCHANGED <<variant, sendCheckoutEmails, clock, txw, req, stamps, started>>

\* ------------------------------------------------------- the other handlers
\* The code of the 500 response of a handler's catch block.
ApiError(v, kind) ==
  IF v = "server1" THEN ""
  ELSE CASE kind = "list" -> "FETCH_VISITORS_ERROR"
         [] kind = "stats" -> "STATS_ERROR"
         [] kind = "export" -> "EXPORT_ERROR"
         [] OTHER -> ErrorCode(Handlers(v), kind)

Ended(c, status, code, out) ==
  [c EXCEPT !.resp = [status |-> status, code |-> code], !.out = out]

Failed(c) == Ended(c, 500, ApiError(variant, c.kind), <<>>)

\* A statement on the pool succeeds only while the pool is connected.
StoreUp == pool = "connected"

\* req.user as the handler of a route finds it: authenticateToken alone
\* sets it (req.user = decoded), on the routes registered with it.
ReqUser(v, kind, token) ==
  IF NeedsToken(v, kind) /\ authenticateToken(v, token) = Pass THEN token
  ELSE NoToken

\* request.input('created_by', sql.NVarChar, req.user?.username || 'system');
\* the second program of server1.js writes 'public_kiosk'.  The token
\* carries the username of the operator it was signed for.
CreatedBy(v, user) ==
  IF v = "server1b" THEN "public_kiosk"
  ELSE IF user # NoToken /\ user.id \in UserIds THEN users[user.id].username
  ELSE "system"

\* Authorization headers of a check-in: none, or the token of the admin.
CreateTokens == {NoToken, [sig |-> "good", expired |-> FALSE,
                           role |-> "admin", id |-> 1]}

\* POST /api/visitors, taken in one step.
ApiCreateBody(c, body) ==
  LET v == ValidateCreate(Handlers(variant), body)
      user == ReqUser(variant, "create", c.token)
  IN IF v # "OK"
     THEN call' = Ended(c, 400, v, <<>>) /\ UNCHANGED <<visitors, nextId, audit>>
     ELSE \/ call' = Failed(c) /\ UNCHANGED <<visitors, nextId, audit>>
          \/ /\ StoreUp
             /\ nextId \in Ids
             /\ \E suffix \in Suffixes :
                  visitors' =
                    [visitors EXCEPT ![nextId] =
                       NewRow(body,
                              JsonStringify(QrData(Handlers(variant), body,
                                                   clock, suffix)),
                              clock)]
             /\ nextId' = nextId + 1
             \* if (req.user) await logAudit(req.user.id, 'CREATE_VISITOR', ...)
             /\ IF user # NoToken
                THEN \E ok \in BOOLEAN :
                       audit' = Logged(logAudit(ok), "CREATE_VISITOR", nextId)
                ELSE audit' = audit
             /\ call' = Ended(c, 200, "OK",
                              [id |-> nextId,
                               created_by |-> CreatedBy(variant, user)])

ApiCreate(body, token) ==
  /\ Arrives("create")
  /\ \E elapsed \in BOOLEAN :
       \/ Through("create", token, elapsed)
            /\ ApiCreateBody(Handed("create", token), body)
       \/ Turned("create", token, elapsed)
            /\ UNCHANGED <<visitors, nextId, audit>>
  /\ UNCHANGED <<proc, pool, users, passed>>
  /\ UNCHANGED <<variant, sendCheckoutEmails, clock, txw, req, stamps,
                 started>>

\* PUT /api/visitors/:id/checkout, taken in one step.
ApiCheckoutBody(c, id) ==
  LET h == Handlers(variant)
      row == Committed(id)
      refuse(status, code) ==
         /\ call' = Ended(c, status, IF HasCodes(h) THEN code ELSE "", id)
         /\ UNCHANGED <<visitors, clock, stamps>>
  IN IF IdRejected(h, id) THEN refuse(400, "INVALID_ID")
     ELSE \/ call' = Failed(c) /\ UNCHANGED <<visitors, clock, stamps>>
          \/ /\ StoreUp
             /\ IF ReadsBeforeCheckout(h) /\ ~Exists(row)
                  THEN refuse(404, "VISITOR_NOT_FOUND")
                ELSE IF ReadsBeforeCheckout(h) /\ row.status = "checked_out"
                  THEN refuse(400, "ALREADY_CHECKED_OUT")
                ELSE IF ~CheckoutWhere(h, row)
                  THEN refuse(404, "VISITOR_NOT_FOUND")
                ELSE /\ visitors' = [visitors EXCEPT ![id] = CheckoutSet(row, clock)]
                     /\ clock' = clock + 1
                     /\ stamps' = [stamps EXCEPT ![id] = @ + 1]
                     /\ call' = Ended(c, 200, "OK", id)

ApiCheckout(id, token) ==
  /\ Arrives("checkout")
  /\ \E elapsed \in BOOLEAN :
       \/ Through("checkout", token, elapsed) /\ ApiCheckoutBody(Handed("checkout", token), id)
       \/ Turned("checkout", token, elapsed) /\ UNCHANGED <<visitors, clock, stamps>>
  /\ UNCHANGED <<proc, pool, users, passed>>
  /\ UNCHANGED <<variant, sendCheckoutEmails, nextId, txw, req, audit, started>>

\* GET /api/visitors/:id
ApiGetBody(c, id) ==
  LET h == Handlers(variant)
      row == Committed(id)
  IN call' = IF IdRejected(h, id) THEN Ended(c, 400, "INVALID_ID", id)
             ELSE IF ~StoreUp THEN Failed(c)
             ELSE IF ~Exists(row) THEN Ended(c, 404, "VISITOR_NOT_FOUND", id)
             ELSE Ended(c, 200, "OK", row.status)

ApiGet(id, token) ==
  /\ Arrives("get")
  /\ \E elapsed \in BOOLEAN :
       \/ Through("get", token, elapsed) /\ ApiGetBody(Handed("get", token), id)
       \/ Turned("get", token, elapsed)
  /\ UNCHANGED <<proc, pool, users, passed>>
  /\ UNCHANGED <<variant, sendCheckoutEmails, clock, visitors, nextId, txw,
                 req, audit, stamps, started>>

\* ------------------------------------------------------------------ listing
Min(a, b) == IF a < b THEN a ELSE b
Max(a, b) == IF a > b THEN a ELSE b

\* const validSortColumns = [...]
validSortColumns ==
  {"checkin_time", "checkout_time", "visitor_name", "host_employee",
   "host_email", "status"}

\* validSortColumns.includes(sortBy) ? sortBy : 'checkin_time' ; server8 and
\* server1b write ORDER BY checkin_time DESC into the query.
SortColumn(v, sortBy) ==
  IF v = "part000" /\ sortBy \in validSortColumns THEN sortBy
  ELSE "checkin_time"

\* sortOrder.toUpperCase() === 'ASC' ? 'ASC' : 'DESC'
ToUpperCase(s) ==
  CASE s = "asc" -> "ASC" [] s = "desc" -> "DESC" [] OTHER -> s

SortDirection(v, sortOrder) ==
  IF v = "part000" /\ ToUpperCase(sortOrder) = "ASC" THEN "ASC" ELSE "DESC"

\* The place of a row's value in the order of the column: times by the
\* clock (NULL first), texts alphabetically.  No row of the model has a
\* host_employee.
SortKey(row, column) ==
  CASE column = "checkin_time" -> row.checkin_time
    [] column = "checkout_time" -> row.checkout_time
    [] column = "status" -> IF row.status = "checked_in" THEN 1 ELSE 2
    [] column = "visitor_name" ->
         (CASE row.visitor_name = "alice" -> 1
            [] row.visitor_name = "bob" -> 2
            [] row.visitor_name = "carol" -> 3
            [] OTHER -> 0)
    [] column = "host_email" -> IF row.host_email = GoodEmail THEN 2 ELSE 1
    [] OTHER -> 0

\* ORDER BY ${sortColumn} ${order}: every sequence of the rows S that is in
\* the order of the column.  The clause names no second column, so rows with
\* equal values come in whatever order the store produces for this query.
RECURSIVE Ordered(_, _, _)
Ordered(S, column, direction) ==
  IF S = {} THEN {<<>>}
  ELSE LET key(i) == SortKey(visitors[i], column)
           firsts == {m \in S : \A y \in S :
                        IF direction = "ASC" THEN key(m) <= key(y)
                        ELSE key(m) >= key(y)}
       IN UNION {{<<m>> \o t : t \in Ordered(S \ {m}, column, direction)} :
                 m \in firsts}

\* WHERE 1=1 [AND status = @status]
Matching(status) ==
  {i \in Ids : Exists(visitors[i]) /\ (status # "" => visitors[i].status = status)}

\* OFFSET @offset ROWS FETCH NEXT @limit ROWS ONLY
Window(rows, offset, limit) ==
  SubSeq(rows, offset + 1, Min(offset + limit, Len(rows)))

\* part_000: total_count of the first row of the page, COUNT(*) OVER() of the
\* filtered set, or 0 for a page without rows.  server8, server1b: the count
\* query is the listing query with its column list replaced by COUNT(*); the
\* pattern is written on one line, the query on several, nothing is
\* replaced, and total_count of the first row is undefined || 0.
Total(v, rows, window) ==
  IF v = "part000" THEN (IF window = <<>> THEN 0 ELSE Len(rows)) ELSE 0

\* Math.max(1, parseInt(page)), Math.min(100, Math.max(1, parseInt(limit)))
PageNum(v, page) == IF v = "part000" THEN Max(1, page) ELSE page
LimitNum(v, limit) == IF v = "part000" THEN Min(100, Max(1, limit)) ELSE limit

\* Math.ceil(totalCount / limitNum)
Ceil(a, b) == (a + b - 1) \div b

\* The handler: the query with its ORDER BY clause, the page cut out of the
\* result, the pagination block of the response.
ListBody(c, query) ==
  LET h == Handlers(variant)
      column == SortColumn(h, query.sortBy)
      direction == SortDirection(h, query.sortOrder)
      pageNum == PageNum(h, query.page)
      limitNum == LimitNum(h, query.limit)
  IN \/ call' = Failed(c)
     \/ /\ StoreUp
        /\ \E rows \in Ordered(Matching(query.status), column, direction) :
             LET window == Window(rows, (pageNum - 1) * limitNum, limitNum)
                 total == Total(h, rows, window)
             IN /\ h = "part000" \/ rows # <<>>
                /\ call' = Ended(c, 200, "OK",
                                 [status |-> query.status, page |-> pageNum,
                                  limit |-> limitNum,
                                  orderBy |-> <<column, direction>>,
                                  visitors |-> window,
                                  total |-> total,
                                  pages |-> Ceil(total, limitNum)])

\* GET /api/visitors?status=&page=&limit=&sortBy=&sortOrder=
ListVisitors(status, page, limit, sortBy, sortOrder, token) ==
  /\ Arrives("list")
  /\ \E elapsed \in BOOLEAN :
       LET query == [status |-> status, page |-> page, limit |-> limit,
                     sortBy |-> sortBy, sortOrder |-> sortOrder]
       IN \/ /\ Through("list", token, elapsed)
             /\ ListBody([Handed("list", token) EXCEPT !.arg = query], query)
          \/ Turned("list", token, elapsed)
  /\ UNCHANGED <<proc, pool, users, passed>>
  /\ UNCHANGED <<variant, sendCheckoutEmails, clock, visitors, nextId, txw,
                 req, audit, stamps, started>>

\* ------------------------------------------------------------ admin, health
\* GET /api/admin/stats and GET /api/admin/export: reads only.
ReadBody(c) ==
  \/ call' = Failed(c)
  \/ StoreUp /\ call' = Ended(c, 200, "OK", Cardinality(Matching("")))

Stats(token) ==
  /\ Arrives("stats")
  /\ \E elapsed \in BOOLEAN :
       \/ Through("stats", token, elapsed) /\ ReadBody(Handed("stats", token))
       \/ Turned("stats", token, elapsed)
  /\ UNCHANGED <<proc, pool, users, passed>>
  /\ UNCHANGED <<variant, sendCheckoutEmails, clock, visitors, nextId, txw,
                 req, audit, stamps, started>>

Export(token) ==
  /\ Arrives("export")
  /\ \E elapsed \in BOOLEAN :
       \/ Through("export", token, elapsed) /\ ReadBody(Handed("export", token))
       \/ Turned("export", token, elapsed)
  /\ UNCHANGED <<proc, pool, users, passed>>
  /\ UNCHANGED <<variant, sendCheckoutEmails, clock, visitors, nextId, txw,
                 req, audit, stamps, started>>

\* GET /api/health: the database part by the pool and a query, the mail part
\* by transporter.verify; always answered 200.  The first program of
\* server1.js answers OK without looking at anything.
HealthBody(c) ==
  \E queryOk \in BOOLEAN, mailOk \in BOOLEAN :
    LET database == IF variant = "server1" THEN "none"
                    ELSE IF ~StoreUp THEN "disconnected"
                    ELSE IF queryOk THEN "healthy" ELSE "unhealthy"
        email == IF variant = "server1" \/ mailOk THEN "healthy" ELSE "unhealthy"
    IN call' = Ended(c, 200, "OK",
                     [database |-> database, email |-> email,
                      status |-> IF database \in {"healthy", "none"}
                                    /\ email = "healthy"
                                 THEN "OK" ELSE "DEGRADED"])

Health ==
  /\ Arrives("health")
  /\ \E elapsed \in BOOLEAN :
       \/ Through("health", NoToken, elapsed) /\ HealthBody(Handed("health", NoToken))
       \/ Turned("health", NoToken, elapsed)
  /\ UNCHANGED <<proc, pool, users, passed>>
  /\ UNCHANGED <<variant, sendCheckoutEmails, clock, visitors, nextId, txw,
                 req, audit, stamps, started>>


ApiBodies == {Alice, [Alice EXCEPT !.visitor_name = ""]}
Statuses == {"", "checked_in"}

\* ----------------------------------------------------------- specification
\* The operators table and the process of the ledger specifications: up and
\* connected throughout.
InitProcess(phase) ==
  /\ proc = [Running EXCEPT !.phase = phase]
  /\ pool = IF phase = "listening" THEN "connected" ELSE "none"
  /\ rateLimitStore = [a \in Addresses |-> NoEntry]
  /\ passed = [a \in Addresses |-> <<>>]
  /\ calls = 0
  /\ call = NoCall


\* ------------------------------------------------------------ specifications
\* Rows of earlier runs: visitors still checked in, no two of them the same
\* person.
InitRow(v, i) ==
  LET body == [Alice EXCEPT !.visitor_name = IF i = 1 THEN "alice" ELSE "carol"]
      then == i - InitRows
  IN NewRow(body, JsonStringify(QrData(Handlers(v), body, then, "a0a")), then)

InitWith(variants, flags) ==
  /\ variant \in variants
  /\ sendCheckoutEmails \in flags
  /\ clock = 1
  /\ visitors = [i \in Ids |-> IF i <= InitRows THEN InitRow(variant, i)
                                 ELSE NoRow]
  /\ nextId = InitRows + 1
  /\ txw = [r \in Reqs |-> NoWrite]
  /\ req = [r \in Reqs |-> NoReq]
  /\ audit = {}
  /\ stamps = [i \in Ids |-> 0]
  /\ started = 0

Init ==
  /\ InitWith({"part000", "server8"}, BOOLEAN)
  /\ InitProcess("listening")
  /\ users = InitUsers

Next ==
  \/ \E b \in CreateBodies : CreateArrive(b)
  \/ \E i \in Targets : CheckoutArrive(i)
  \/ \E i \in Targets, b \in UpdateBodies : UpdateArrive(i, b)
  \/ \E i \in Targets : GetById(i)
  \/ \E r \in Reqs : CreateInsert(r)
  \/ \E r \in Reqs : CheckoutSelect(r)
  \/ \E r \in Reqs : CheckoutUpdate(r)
  \/ \E r \in Reqs : UpdateSelect(r)
  \/ \E r \in Reqs : UpdateWrite(r)
  \/ \E r \in Reqs : LogAudit(r)
  \/ \E r \in Reqs : Commit(r)
  \/ \E r \in Reqs : MailSettle(r)

Spec == Init /\ [][Next]_vars

\* server5, server4 and the first program of server1: no transactions, no
\* update route, check-out is one UPDATE.
InitEarly ==
  /\ InitWith({"server5", "server4", "server1"}, {FALSE})
  /\ InitProcess("listening")
  /\ users = InitUsers

NextEarly ==
  \/ \E b \in CreateBodies : CreateArrive(b)
  \/ \E i \in Targets : CheckoutArrive(i)
  \/ \E i \in Targets : GetById(i)
  \/ \E r \in Reqs : CreateInsert(r)
  \/ \E r \in Reqs : CheckoutUpdate(r)
  \/ \E r \in Reqs : MailSettle(r)

SpecEarly == InitEarly /\ [][NextEarly]_vars

\* The process: start-up, middleware, login, the routes in one step each.
InitApi ==
  /\ InitWith({"part000", "server8", "server1b", "server1"}, {FALSE})
  /\ InitProcess("connecting")
  /\ users = InitUsers

NextApi ==
  \/ ConnectAttempt
  \/ Backoff
  \/ Listen
  \/ startServer
  \/ gracefulShutdown
  \/ Exit
  \/ \E u \in Usernames, p \in Passwords : Login(u, p)
  \/ \E b \in ApiBodies, t \in CreateTokens : ApiCreate(b, t)
  \/ \E i \in Targets, t \in Tokens : ApiCheckout(i, t)
  \/ \E i \in Targets, t \in Tokens : ApiGet(i, t)
  \/ \E s \in Statuses, p \in 1..MaxPage, l \in 1..MaxLimit, t \in Tokens :
       ListVisitors(s, p, l, "checkin_time", "DESC", t)
  \/ \E t \in Tokens : Stats(t)
  \/ \E t \in Tokens : Export(t)
  \/ Health

SpecApi == InitApi /\ [][NextApi]_vars

\* part_000 with its requests step by step and the signal that shuts it
\* down.  A request is let in while the pool is connected (after that
\* databaseHealthCheck answers 503); a handler that is running goes on, every
\* statement of it ending well or in an error, until the process has exited.
Alive == proc.phase # "exited"

InitShutdown ==
  /\ InitWith({"part000"}, {FALSE})
  /\ InitProcess("listening")
  /\ users = InitUsers

NextShutdown ==
  \/ StoreUp /\ Alive /\ \E b \in CreateBodies : CreateArrive(b)
  \/ StoreUp /\ Alive /\ \E i \in Targets : CheckoutArrive(i)
  \/ Alive /\ \E r \in Reqs : CreateInsert(r)
  \/ Alive /\ \E r \in Reqs : CheckoutSelect(r)
  \/ Alive /\ \E r \in Reqs : CheckoutUpdate(r)
  \/ Alive /\ \E r \in Reqs : LogAudit(r)
  \/ Alive /\ \E r \in Reqs : Commit(r)
  \/ Alive /\ \E r \in Reqs : MailSettle(r)
  \/ gracefulShutdown
  \/ Exit

SpecShutdown == InitShutdown /\ [][NextShutdown]_vars

\* The operations of part_000 that write audit events: login, and check-out
\* and update step by step.
InitAudit ==
  /\ InitWith({"part000"}, {FALSE})
  /\ InitProcess("listening")
  /\ users = InitUsers

AuditUsernames == {"admin", "nobody"}
AuditPasswords == {"admin123", "bobpw"}

NextAudit ==
  \/ \E u \in AuditUsernames, p \in AuditPasswords : Login(u, p)
  \/ \E i \in Targets : CheckoutArrive(i)
  \/ \E i \in Targets, b \in UpdateBodies : UpdateArrive(i, b)
  \/ \E r \in Reqs : CheckoutSelect(r)
  \/ \E r \in Reqs : CheckoutUpdate(r)
  \/ \E r \in Reqs : UpdateSelect(r)
  \/ \E r \in Reqs : UpdateWrite(r)
  \/ \E r \in Reqs : LogAudit(r)
  \/ \E r \in Reqs : Commit(r)

SpecAudit == InitAudit /\ [][NextAudit]_vars

\* The listing on its own: a ledger of earlier check-ins and check-outs,
\* some of them made within one reading of the store's clock, read page by
\* page with every sort column and order.
ListRow(v, i, out) ==
  LET body == [Alice EXCEPT !.visitor_name = IF i % 2 = 1 THEN "alice"
                                             ELSE "carol"]
      then == (i + 1) \div 2
      suffix == IF i % 2 = 1 THEN "a0a" ELSE "b1b"
      row == NewRow(body, JsonStringify(QrData(Handlers(v), body, then, suffix)),
                    then)
  IN IF out THEN CheckoutSet(row, then + 1) ELSE row

Ledgers(v) ==
  LET n == InitRows + 2
  IN {[i \in Ids |-> IF i <= n THEN ListRow(v, i, outs[i]) ELSE NoRow] :
        outs \in [1..n -> BOOLEAN]}

SortBys == {"checkin_time", "status", "id; DROP TABLE"}
SortOrders == {"DESC", "ASC"}
Limits == {MaxLimit, 10}
ListTokens == {NoToken, Token("good", FALSE, "reception")}

InitList ==
  /\ variant \in {"part000", "server8", "server1b"}
  /\ sendCheckoutEmails = FALSE
  /\ visitors \in Ledgers(variant)
  /\ nextId = Cardinality(Matching("")) + 1
  /\ clock = InitRows + 3
  /\ txw = [r \in Reqs |-> NoWrite]
  /\ req = [r \in Reqs |-> NoReq]
  /\ audit = {}
  /\ stamps = [i \in Ids |-> IF visitors[i].status = "checked_out" THEN 1
                              ELSE 0]
  /\ started = 0
  /\ InitProcess("listening")
  /\ users = InitUsers

NextList ==
  \E s \in Statuses, p \in 1..MaxPage, l \in Limits, b \in SortBys,
     o \in SortOrders, t \in ListTokens :
    ListVisitors(s, p, l, b, o, t)

SpecList == InitList /\ [][NextList]_vars

\* Every await of the start-up returns: sql.connect and the test query end
\* in success or in an error (connectionTimeout, requestTimeout), the timer
\* of the back-off fires.
SpecApiFair ==
  /\ SpecApi
  /\ WF_vars(ConnectAttempt) /\ WF_vars(Backoff) /\ WF_vars(startServer)


\* ===================================================================== claims
Checkouts(id) == {r \in Reqs : req[r].kind = "checkout" /\ req[r].id = id}
Won(id) == {r \in Checkouts(id) : req[r].resp.status = 200}
Creates == {r \in Reqs : req[r].kind = "create"}
Rows == {i \in Ids : Exists(visitors[i])}
AllRows ==
  {visitors[i] : i \in Rows} \cup {txw[r].row : r \in {o \in Reqs : txw[o].id # 0}}

\* C1: of the check-out requests racing for one visitor that is checked in
\* (part000 and server8), at most one is answered with success and
\* checkout_time is committed at most once; every such request that ends
\* without a storage error is either the one success or is refused with
\* ALREADY_CHECKED_OUT or VISITOR_NOT_FOUND while exactly one other request
\* has succeeded and written checkout_time once.
C1_OneCheckoutWins ==
  \A id \in Ids :
    /\ Cardinality(Won(id)) <= 1
    /\ stamps[id] <= 1
    /\ \A r \in Checkouts(id) :
         (req[r].pc = "done" /\ req[r].pre = "checked_in"
            /\ req[r].resp.status # 500)
         => /\ req[r].resp.code \in {"OK", "ALREADY_CHECKED_OUT", "VISITOR_NOT_FOUND"}
            /\ Cardinality(Won(id)) = 1
            /\ stamps[id] = 1
            /\ visitors[id].status = "checked_out"

\* Two requests found the visitor checked in; one won, the other lost the race
\* at the conditional update.
C1_Witness ==
  \E id \in Ids : \E r1, r2 \in Checkouts(id) :
    /\ variant = "part000"
    /\ req[r1].pre = "checked_in" /\ req[r2].pre = "checked_in"
    /\ req[r1].resp.code = "OK"
    /\ req[r2].resp.code = "VISITOR_NOT_FOUND"

\* C2: in server4 and the first program of server1 a check-out of a visitor
\* already checked out is not answered with success, and checkout_time is
\* written at most once per visitor.
C2_SecondCheckoutFails ==
  variant \in {"server4", "server1"} =>
    \A id \in Ids :
      /\ stamps[id] <= 1
      /\ \A r \in Checkouts(id) :
           req[r].pre = "checked_out" => req[r].resp.status # 200

\* C3: every row, committed or written by a transaction still open, has
\* status checked_in or checked_out, and checkout_time is set exactly when
\* the status is checked_out.
C3_StatusAndCheckoutTime ==
  \A row \in AllRows :
    /\ row.status \in {"checked_in", "checked_out"}
    /\ (row.checkout_time # Null) <=> (row.status = "checked_out")

\* A row is checked out while another request was rolled back.
C3_Witness ==
  /\ \E i \in Ids : visitors[i].status = "checked_out"
  /\ \E r \in Reqs : req[r].txn = "rolledback" /\ req[r].id \in Rows

\* C4: a committed row that is checked_out keeps that status and its
\* checkout_time in every step, and the status of an existing row changes
\* only from checked_in to checked_out.
C4_CheckedOutIsTerminal ==
  [][\A i \in Ids :
       /\ visitors[i].status = "checked_out" =>
            /\ visitors'[i].status = "checked_out"
            /\ visitors'[i].checkout_time = visitors[i].checkout_time
       /\ (Exists(visitors[i]) /\ visitors'[i].status # visitors[i].status) =>
            /\ visitors[i].status = "checked_in"
            /\ visitors'[i].status = "checked_out"]_vars

\* An update was committed on a visitor that a racing check-out had checked
\* out after the update read its snapshot.
C4_Witness ==
  \E r \in Reqs :
    /\ req[r].kind = "update" /\ req[r].resp.status = 200
    /\ visitors[req[r].id].status = "checked_out"
    /\ visitors[req[r].id].visitor_name = "bob"

C6_MailNeverInfluences ==
  /\ [](variant = "part000" =>
          \A r \in Reqs :
            (req[r].kind \in {"create", "checkout"} /\ req[r].txn = "committed")
            => /\ req[r].pc = "done"
               /\ req[r].resp = Success(variant)
               /\ req[r].mail \in {"none", "composeError", "pending", "sent", "failed"}
               /\ Exists(visitors[req[r].id])
               /\ req[r].kind = "checkout" =>
                    visitors[req[r].id].status = "checked_out")
  /\ [][(variant = "part000"
           /\ \E r \in Reqs : req[r].mail = "pending" /\ req'[r].mail # "pending")
        => /\ visitors' = visitors
           /\ \A r \in Reqs : req'[r].resp = req[r].resp]_vars

\* A check-in whose mail could not be composed and a check-out whose mail
\* failed were both answered with success.
C6_Witness ==
  \E c, o \in Reqs :
    /\ variant = "part000"
    /\ req[c].kind = "create" /\ req[c].mail = "composeError"
    /\ req[c].resp.status = 200
    /\ req[o].kind = "checkout" /\ req[o].mail = "failed"
    /\ req[o].resp.status = 200

\* C7: in the first program of server1 a check-in never waits for the mail,
\* and a request whose row was inserted is never answered with an error.
C7_CreateIndependentOfMail ==
  variant = "server1" =>
    \A r \in Creates :
      /\ req[r].pc # "awaitmail"
      /\ (req[r].pc = "done" /\ req[r].id # 0) => req[r].resp.status = 200

\* C8: in part000 a check-in answered 5xx has left no row (what it inserted
\* was rolled back and its identifier stays unused), a check-in answered with
\* success has its row committed, and the table holds exactly one row per
\* successful check-in besides the rows it started with.
C8_NoRowAfter5xx ==
  variant = "part000" =>
    /\ \A r \in Creates :
         /\ req[r].resp.status = 500 =>
              /\ req[r].id \notin Rows
              /\ txw[r] = NoWrite
         /\ req[r].resp.status = 200 =>
              /\ req[r].id \in Rows
              /\ req[r].txn = "committed"
    /\ Cardinality(Rows) =
         InitRows + Cardinality({r \in Creates : req[r].resp.status = 200})

\* A check-in inserted its row, the commit failed and it was answered 500.
C8_Witness ==
  \E r \in Creates :
    /\ variant = "part000"
    /\ req[r].resp.status = 500 /\ req[r].id # 0
    /\ req[r].txn = "rolledback"

\* C9: in part000 a check-out of a visitor that exists and is already checked
\* out is answered ALREADY_CHECKED_OUT, and VISITOR_NOT_FOUND is answered only to a
\* request whose id had no row (rows are never deleted, so a row there when
\* the request arrived is there when it is answered).
C9_AlreadyCheckedOutIsDistinct ==
  \A r \in Reqs :
    (variant = "part000" /\ req[r].kind = "checkout" /\ req[r].pc = "done") =>
      /\ (req[r].pre = "checked_out" /\ req[r].resp.status # 500)
           => req[r].resp.code = "ALREADY_CHECKED_OUT"
      /\ req[r].resp.code = "VISITOR_NOT_FOUND" => req[r].pre = "absent"

\* C10: no two rows of the same visitor (visitor_name and mobile) are
\* checked_in at once.
C10_AtMostOneActiveVisit ==
  \A i, j \in Ids :
    (i # j /\ visitors[i].status = "checked_in"
       /\ visitors[j].status = "checked_in")
    => ~(/\ visitors[i].visitor_name = visitors[j].visitor_name
         /\ visitors[i].mobile = visitors[j].mobile)

\* ------------------------------------------------------------ login claims
LoginRan == call.kind = "login" /\ call.ran
Addressed(username) ==
  {i \in UserIds : /\ users[i].username # ""
                   /\ users[i].username = username \/ users[i].email = username}

\* C11: a login is answered with a token exactly when it is answered 200, and
\* the operator the token is made for is not one whose is_active is 0,
\* whatever the password and whether the operator was addressed by username
\* or by email (part000, server8, server1b).
C11_NoTokenForInactive ==
  LoginRan =>
    /\ (call.resp.status = 200) = (call.out.token # NoToken)
    /\ call.out.token # NoToken =>
         /\ call.out.user \in Addressed(call.arg[1])
         /\ call.out.token.id = call.out.user
         /\ users[call.out.user].is_active # 0

\* C11 witness: the disabled operator logs in by username with the right
\* password and is refused.
C11_Witness ==
  /\ LoginRan /\ call.arg = <<"bob", "bobpw">>
  /\ call.resp.status \in {401, 403}
  /\ call.out.token = NoToken

\* C12: in part_000 a login for an operator that exists but is disabled is
\* answered 403 ACCOUNT_DISABLED, a login for a name no operator has is
\* answered 401 INVALID_CREDENTIALS (storage errors and missing credentials
\* aside).
C12_DisabledIsDistinct ==
  (variant = "part000" /\ LoginRan /\ call.resp.status \notin {400, 500}) =>
    LET a == Addressed(call.arg[1])
    IN /\ (a # {} /\ \A i \in a : users[i].is_active = 0) =>
            call.resp = [status |-> 403, code |-> "ACCOUNT_DISABLED"]
       /\ a = {} => call.resp = [status |-> 401, code |-> "INVALID_CREDENTIALS"]

\* C13: in part_000 a login for a name no operator has and a login with a
\* wrong password for a name an operator has are both answered 401
\* INVALID_CREDENTIALS after exactly one bcrypt.compare; no response with
\* that code is given after another number of comparisons.
C13_OneComparePerInvalidLogin ==
  (variant = "part000" /\ LoginRan) =>
    LET a == Addressed(call.arg[1])
        wrong == \A i \in a : ~bcryptCompare(call.arg[2], users[i].password)
    IN /\ (call.resp.status \notin {400, 500} /\ wrong) =>
            /\ call.resp = [status |-> 401, code |-> "INVALID_CREDENTIALS"]
            /\ call.out.compares = 1
       /\ call.resp.code = "INVALID_CREDENTIALS" =>
            call.resp.status = 401 /\ call.out.compares = 1

\* C13 witness: the name of no operator, refused after one comparison.
C13_Witness ==
  /\ variant = "part000" /\ LoginRan /\ call.arg[1] = "nobody"
  /\ call.resp.code = "INVALID_CREDENTIALS" /\ call.out.compares = 1

\* C14: in part_000 a login whose lookup found an active operator and whose
\* password matched is answered with a token, also when the update of
\* last_login fails.
C14_LastLoginIsBestEffort ==
  (/\ variant = "part000" /\ LoginRan /\ call.out.user # 0
   /\ bcryptCompare(call.arg[2], users[call.out.user].password)) =>
    call.resp.status = 200 /\ call.out.token # NoToken

\* ----------------------------------------------------------- access claims
Protected == {"checkout", "list", "get", "stats", "export"}
AdminOnly == {"stats", "export"}
ValidToken(token) == token.sig = "good" /\ ~token.expired
TokenCodes == {"NO_TOKEN", "TOKEN_EXPIRED", "INVALID_TOKEN"}
EarlierCodes == {"DATABASE_UNAVAILABLE", "RATE_LIMIT_EXCEEDED"}

\* The access policy of part000, server8 and server1b, the refusals being
\* taken from the set codes: no protected handler runs without a valid
\* token, no admin handler runs for another role, and a call no handler ran
\* for leaves the visitors as they were.
AccessPolicy(tokenCodes, roleCodes) ==
  (Retries(variant) /\ call.kind \in Protected) =>
    /\ ~ValidToken(call.token) =>
         ~call.ran /\ call.resp.code \in tokenCodes
    /\ (ValidToken(call.token) /\ call.kind \in AdminOnly
                               /\ call.token.role # "admin") =>
         ~call.ran /\ call.resp.code \in roleCodes

RefusedLeavesLedger ==
  (calls' = calls + 1 /\ ~call'.ran) =>
    /\ visitors' = visitors /\ nextId' = nextId /\ audit' = audit

\* C15 as stated: a call to check-out, listing, get-by-id, stats or export
\* without a valid token ends in NO_TOKEN, TOKEN_EXPIRED or INVALID_TOKEN, one
\* to stats or export with a valid token of another role than admin ends in
\* INSUFFICIENT_PERMISSIONS, and in neither case does the handler run.
C15_AccessPolicyAsStated ==
  AccessPolicy(TokenCodes, {"INSUFFICIENT_PERMISSIONS"})

\* C15 amended: the same, the call being refused either with those codes or,
\* by the middleware registered in front of authenticateToken, with 503
\* DATABASE_UNAVAILABLE or 429 RATE_LIMIT_EXCEEDED; a refused call changes no
\* ledger state.
C15_AccessPolicy ==
  /\ [](AccessPolicy(TokenCodes \cup EarlierCodes,
                     {"INSUFFICIENT_PERMISSIONS"} \cup EarlierCodes))
  /\ [][RefusedLeavesLedger]_vars

\* C15 witness: stats asked for with an admin token past its lifetime and
\* refused with TOKEN_EXPIRED, after a check-out that was served.
C15_Witness ==
  /\ variant = "part000" /\ call.kind = "stats"
  /\ call.token = Token("good", TRUE, "admin")
  /\ ~call.ran /\ call.resp.code = "TOKEN_EXPIRED"
  /\ \E i \in Ids : visitors[i].status = "checked_out"

\* ---------------------------------------------------------- start-up claims
Connecting == proc.phase \in {"connecting", "waiting"}

\* The steps of the start-up: attempts are numbered from 1 to maxRetries, an
\* attempt that succeeds is the last one, the failure of attempt maxRetries
\* ends the process with exit code 1, the listener is started only after a
\* successful attempt and an exited process stays exited.
StartupStep ==
  /\ proc'.attempt # proc.attempt =>
       \/ Connecting /\ proc'.attempt = proc.attempt + 1
       \/ proc'.phase = "listening" /\ proc'.attempt = 0
  /\ (~Connecting /\ proc' # proc) => proc'.phase \notin {"connecting", "waiting"}
  /\ (proc.phase = "connecting" /\ proc.attempt = maxRetries /\ proc' # proc) =>
       \/ proc'.phase = "connected" /\ pool' = "connected"
       \/ proc'.phase = "exited" /\ proc'.exit = 1
  /\ (proc'.phase = "listening" /\ proc.phase # "listening") =>
       proc.phase = "connected" /\ pool = "connected"
  /\ proc.phase = "exited" => proc' = proc /\ calls' = calls

\* C16: connectWithRetry (part000, server8, server1b) makes at most maxRetries
\* attempts and always comes to an end; it returns at the first attempt that
\* succeeds and makes no further one; the failure of attempt maxRetries makes
\* the process exit with code 1, no listener having been started and no call
\* served.
C16_ConnectWithRetryTerminates ==
  /\ [](Retries(variant) =>
          /\ proc.attempt \in 0..maxRetries
          /\ (Connecting \/ proc.exit = 1) => calls = 0
          /\ proc.exit = 1 => proc.phase = "exited")
  /\ [][Retries(variant) => StartupStep]_vars
  /\ <>(~Connecting)

\* C16 witness: part_000 has exited with code 1 after the fifth attempt.
C16_Witness ==
  /\ variant = "part000" /\ proc.phase = "exited" /\ proc.exit = 1
  /\ proc.attempt = maxRetries /\ calls = 0

\* C17: in the first program of server1.js the listener is never up, and no
\* call is ever served, without a connection pool.
C17_FailedConnectIsFatal ==
  (variant = "server1" /\ pool = "none") => ~Serving /\ calls = 0

\* ------------------------------------------------- availability and listing
LedgerKinds == {"create", "list", "get", "checkout", "stats", "export"}

\* C18: in the second program of server1.js a ledger call (create, list, get
\* by id, check-out, stats, export) that arrives while the pool is missing or
\* not connected is answered 503 DATABASE_UNAVAILABLE and its handler does not
\* run.
C18_LedgerCallsNeedThePool ==
  (variant = "server1b" /\ call.kind \in LedgerKinds
                        /\ call.pool # "connected") =>
    /\ ~call.ran
    /\ call.resp = [status |-> 503, code |-> "DATABASE_UNAVAILABLE"]

\* C19: in part_000 every call to GET /api/health reaches the health handler;
\* with the pool not connected the handler reports the database as
\* disconnected and the overall status as DEGRADED.
C19_HealthAlwaysAnswers ==
  (variant = "part000" /\ call.kind = "health") =>
    /\ call.ran
    /\ call.pool # "connected" =>
         call.out.database = "disconnected" /\ call.out.status = "DEGRADED"

\* C20: in part_000 the total of a listing answered 200 is the number of
\* records matching its filter, for every page and limit, pages beyond the
\* last included (the ledger is as the listing read it: no call came after).
C20_TotalIsFilteredCount ==
  (variant = "part000" /\ call.kind = "list" /\ call.resp.status = 200) =>
    call.out.total = Cardinality(Matching(call.out.status))

\* ------------------------------------------------------------------- C25
\* C25: the stored qr_code_data of a successfully created record, parsed
\* back, gives the identifier assigned to the record, the visitor_name that
\* was supplied and the checkin_time the store assigned.  Stated at the step
\* that commits the check-in and answers it.
C25_RoundTrip(id, name, row) ==
  LET qr == JsonParse(row.qr_code_data)
  IN /\ qr.id = ToString(id)
     /\ qr.name = name
     /\ qr.checkin = IsoString(row.checkin_time)

C25_QrRoundTrip ==
  [][\A r \in Reqs :
       (/\ variant = "part000"
        /\ At(r, "create", "commit")
        /\ req'[r].resp.status = 200)
       => C25_RoundTrip(req[r].id, req[r].body.visitor_name,
                        visitors'[req[r].id])]_vars

\* The same for the check-in timestamp alone.
C25_CheckinRoundTrip ==
  [][\A r \in Reqs :
       (/\ variant = "part000"
        /\ At(r, "create", "commit")
        /\ req'[r].resp.status = 200)
       => JsonParse(visitors'[req[r].id].qr_code_data).checkin
            = IsoString(visitors'[req[r].id].checkin_time)]_vars

\* ------------------------------------------------------------------- C26
\* C26: the ids of the QR payloads of the stored records are pairwise
\* distinct, also for check-ins handled within one reading of the clock
\* (server4 and the first program of server1.js).
C26_QrIdsDistinct ==
  variant \in {"server4", "server1"} =>
    \A i \in Ids, j \in Ids :
      (i # j /\ Exists(visitors[i]) /\ Exists(visitors[j])) =>
        JsonParse(visitors[i].qr_code_data).id
          # JsonParse(visitors[j].qr_code_data).id

\* ------------------------------------------------------------------- C21
\* C21: in server8 and the second program of server1.js a listing answered
\* 200 reports as total the number of records matching its filter, as pages
\* the ceiling of total / limit, and carries the records of the page asked
\* for (three check-ins, one check-out, status=checked_in, page 1, limit 10:
\* total 2 with 2 visitors).
C21_ListingTotals ==
  (/\ variant \in {"server8", "server1b"}
   /\ call.kind = "list"
   /\ call.resp.status = 200)
  => LET matching == Cardinality(Matching(call.arg.status))
         offset == (call.out.page - 1) * call.out.limit
     IN /\ call.out.total = matching
        /\ call.out.pages = Ceil(matching, call.out.limit)
        /\ Len(call.out.visitors)
             = Max(0, Min(call.out.limit, matching - offset))

\* ------------------------------------------------------------------- C22
\* C22: with the ledger unchanged between the requests, the pages of one
\* query at one limit hold every matching record exactly once, in the order
\* of the sort column, ties included: two different pages share no record,
\* and pages 1 and 2 of a two-page result are together the matching records
\* in sorted order.
SameQuery(a, b) ==
  /\ a.status = b.status /\ a.limit = b.limit
  /\ a.sortBy = b.sortBy /\ a.sortOrder = b.sortOrder

InOrder(ids, orderBy) ==
  \A k \in 1..Len(ids), l \in 1..Len(ids) :
    k < l =>
      IF orderBy[2] = "ASC"
      THEN SortKey(visitors[ids[k]], orderBy[1])
             <= SortKey(visitors[ids[l]], orderBy[1])
      ELSE SortKey(visitors[ids[k]], orderBy[1])
             >= SortKey(visitors[ids[l]], orderBy[1])

C22_PagesPartition ==
  [][(/\ variant = "part000"
      /\ call.kind = "list" /\ call.resp.status = 200
      /\ call'.kind = "list" /\ call'.resp.status = 200
      /\ SameQuery(call.arg, call'.arg)
      /\ call.out.page # call'.out.page)
     => LET first == call.out.visitors
            second == call'.out.visitors
            all == first \o second
        IN /\ \A k \in 1..Len(first), l \in 1..Len(second) :
                first[k] # second[l]
           /\ (call.out.page = 1 /\ call'.out.page = 2 /\ call.out.pages = 2)
              => /\ {all[k] : k \in 1..Len(all)} = Matching(call.arg.status)
                 /\ Len(all) = call.out.total
                 /\ InOrder(all, call.out.orderBy)]_vars

\* ------------------------------------------------------------------- C23
\* C23: the column of the ORDER BY clause is always one of the allow-list,
\* and a sortBy outside the allow-list gives the default ordering,
\* checkin_time descending, whatever sortOrder was sent.
C23_SortByAllowList ==
  (variant = "part000" /\ call.kind = "list" /\ call.resp.status = 200)
  => /\ call.out.orderBy[1] \in validSortColumns
     /\ call.arg.sortBy \notin validSortColumns
          => call.out.orderBy = <<"checkin_time", "DESC">>

\* The first half of C23 alone.
C23_ColumnInAllowList ==
  (call.kind = "list" /\ call.resp.status = 200)
  => call.out.orderBy[1] \in validSortColumns

\* ------------------------------------------------------------------- C24
\* C24: in part_000 a check-in whose mobile is present and is not exactly ten
\* digits (nine digits, eleven digits, a character that is no digit) is
\* answered 4xx before any transaction is begun and without a row being
\* inserted; the code is INVALID_MOBILE when the required fields are there
\* and host_email is well-formed (those are tested first).  So a check-in
\* with a mobile is accepted only if the mobile is ten digits.
TenDigits(s) == Len(s) = 10 /\ \A k \in 1..Len(s) : s[k] \in Digits

C24_InvalidMobileRejected ==
  \A r \in Reqs :
    (/\ variant = "part000"
     /\ req[r].kind = "create"
     /\ req[r].body.mobile # <<>>
     /\ ~TenDigits(req[r].body.mobile))
    => /\ req[r].pc = "done"
       /\ req[r].resp.status \in 400..499
       /\ req[r].txn = "none"
       /\ req[r].id = 0 /\ txw[r] = NoWrite
       /\ (/\ req[r].body.visitor_name # "" /\ req[r].body.purpose # ""
           /\ req[r].body.host_email = GoodEmail)
          => req[r].resp.code = "INVALID_MOBILE"

C24_Witness ==
  \E r \in Reqs :
    /\ variant = "part000"
    /\ req[r].kind = "create"
    /\ req[r].body.mobile = Mobile11
    /\ req[r].resp = Resp(400, "INVALID_MOBILE")
    /\ \E o \in Reqs : /\ req[o].kind = "create" /\ req[o].body.mobile = Mobile10
                       /\ req[o].resp.status = 200

\* ------------------------------------------------------------------- C27
\* C27: an existing record is never deleted and its stored fields change
\* in one way only, by the check-out that sets status and checkout_time of a
\* checked-in record; no other operation changes a stored field.
C27_OnlyCheckoutMutates ==
  [][variant = "part000" =>
       \A i \in Ids :
         Exists(visitors[i]) =>
           \/ visitors'[i] = visitors[i]
           \/ /\ visitors[i].status = "checked_in"
              /\ visitors'[i]
                   = CheckoutSet(visitors[i], visitors'[i].checkout_time)]_vars

\* The part of C27 about deletion: the set of ids only grows.
C27_IdsOnlyGrow ==
  [][\A i \in Ids : Exists(visitors[i]) => Exists(visitors'[i])]_vars

\* ------------------------------------------------------------------- C28
\* C28: a failure of the audit write never makes a login, a check-out or a
\* visitor update fail.  The await of logAudit always hands control back to
\* the handler with what the transaction wrote untouched, and the handler
\* goes on to the commit; a login whose audit write failed is answered 200
\* with its token; a check-out or update whose audit write failed and whose
\* commit went through is answered 200 with its row committed.
C28_AuditStep ==
  \A r \in Reqs :
    (req[r].pc = "audit" /\ req'[r] # req[r])
    => /\ req'[r].pc = "commit"
       /\ req'[r].audited \in {"written", "failed"}
       /\ req'[r].txn = "active"
       /\ txw'[r] = txw[r]

C28_AuditFailureIsHarmless ==
  /\ [](/\ (call.kind = "login" /\ call.ran /\ call.out.audited # "none")
           => /\ call.resp.status = 200
              /\ call.out.token # NoToken
        /\ \A r \in Reqs :
             (req[r].audited # "none" /\ req[r].pc = "done")
             => \/ /\ req[r].resp.status = 200
                   /\ req[r].txn = "committed"
                \/ /\ req[r].resp = Resp(500, ErrorCode(variant, req[r].kind))
                   /\ req[r].audited \in {"written", "failed"}
                   /\ req[r].txn = "rolledback")
  /\ [][C28_AuditStep]_vars

C28_Witness ==
  /\ call.kind = "login" /\ call.ran
  /\ call.out.audited = "failed" /\ call.resp.status = 200
  /\ \E r \in Reqs :
       /\ req[r].kind = "checkout" /\ req[r].audited = "failed"
       /\ req[r].resp.status = 200
       /\ visitors[req[r].id].status = "checked_out"
  /\ \E r \in Reqs :
       /\ req[r].kind = "update" /\ req[r].audited = "failed"
       /\ req[r].resp.status = 200
       /\ visitors[req[r].id].visitor_name = req[r].body.visitor_name
  /\ audit = {}

\* ------------------------------------------------------------------- C30
\* C30: a check-out notification is handed to the mail transport only with
\* SEND_CHECKOUT_EMAILS set to 'true' and only by a check-out whose
\* transition is committed and which is answered 200; a check-out answered
\* 404, 400 or 500 sends none; no record has two notifications.
Notified(r) == req[r].kind = "checkout" /\ req[r].mail # "none"

C30_CheckoutNotification ==
  /\ \A r \in Reqs :
       Notified(r)
       => /\ sendCheckoutEmails
          /\ req[r].resp.status = 200
          /\ visitors[req[r].id].status = "checked_out"
          /\ UsesTx(variant) => req[r].txn = "committed"
  /\ \A r \in Reqs :
       (req[r].kind = "checkout" /\ req[r].pc = "done"
          /\ req[r].resp.status # 200)
       => req[r].mail = "none"
  /\ \A r \in Reqs, o \in Reqs :
       (Notified(r) /\ Notified(o) /\ req[r].id = req[o].id) => r = o

C30_Witness ==
  \E r \in Reqs, o \in Reqs :
    /\ Notified(r) /\ req[r].mail = "sent"
    /\ req[o].kind = "checkout" /\ req[o].id = req[r].id
    /\ req[o].pc = "done" /\ req[o].resp.status \in {400, 404}
    /\ req[o].mail = "none"

\* ------------------------------------------------------------------- C29
\* C29: the shutdown lets the requests in flight finish before it closes
\* the pool (no handler is running when the pool is closed), and the pool
\* and the mail transport are closed before the process exits.
InFlight(r) == req[r].pc \notin {"idle", "done"}

C29_DrainThenClose ==
  /\ pool = "closed" => \A r \in Reqs : ~InFlight(r)
  /\ (proc.phase = "exited" /\ proc.exit = 0)
       => pool = "closed" /\ proc.transporter = "closed"

\* The second half of C29 alone.
C29_ClosedBeforeExit ==
  (proc.phase = "exited" /\ proc.exit = 0)
    => pool = "closed" /\ proc.transporter = "closed"

(***************************************************************************)
(* The rate limiter followed in time.  app.use('/api/*', rateLimit(max,    *)
(* windowMs)) keeps one entry {count, startTime} per req.ip.  An absent    *)
(* entry is NoEntry.  The window and the time are scaled down: WindowMs    *)
(* ticks of the clock stand for windowMs milliseconds.  The limit of this  *)
(* specification is LimitRequests, so that a window can hold more than one *)
(* request.  The clean-up of expired entries, run at random after a        *)
(* request was counted and not refused, is the input cleanup.              *)
(***************************************************************************)
WindowMs == 2
MaxTime == 5
MaxHits == 4
LimitRequests == MaxRequests + 1

Expired(entry, now) == now - entry.startTime > WindowMs

\* the entry after the request was counted
CountedEntry(entry, now) ==
  IF entry.count = 0 \/ Expired(entry, now)
  THEN [count |-> 1, startTime |-> now]
  ELSE [entry EXCEPT !.count = RateCount(entry.count, FALSE)]

\* for (const [key, value] of rateLimitStore.entries()) ... delete(key)
CleanUp(store, now) ==
  [k \in Addresses |->
     IF store[k].count # 0 /\ Expired(store[k], now) THEN NoEntry
     ELSE store[k]]

LimitRequest(a, cleanup) ==
  LET entry == rateLimitStore[a]
      r == rateLimit(LimitRequests, entry.count, Expired(entry, clock))
      store == [rateLimitStore EXCEPT ![a] = CountedEntry(entry, clock)]
  IN /\ entry.count < MaxHits
     /\ rateLimitStore' = IF r = Pass /\ cleanup THEN CleanUp(store, clock)
                          ELSE store
     /\ passed' = IF r = Pass
                  THEN [passed EXCEPT ![a] =
                          Append(@, [time |-> clock,
                                     start |-> store[a].startTime])]
                  ELSE passed
     /\ call' = [NoCall EXCEPT !.kind = "limit", !.arg = <<a>>,
                               !.ran = (r = Pass), !.resp = r]
     /\ UNCHANGED <<variant, sendCheckoutEmails, clock, visitors, nextId, txw,
                    req, audit, stamps, started, proc, pool, users, calls>>

Tick ==
  /\ clock < MaxTime
  /\ clock' = clock + 1
  /\ UNCHANGED <<variant, sendCheckoutEmails, visitors, nextId, txw, req,
                 audit, stamps, started>>
  /\ UNCHANGED apiVars

InitLimit ==
  /\ InitWith({"part000"}, {FALSE})
  /\ InitProcess("listening")
  /\ users = InitUsers

NextLimit ==
  \/ \E a \in Addresses, cleanup \in BOOLEAN : LimitRequest(a, cleanup)
  \/ Tick

SpecLimit == InitLimit /\ [][NextLimit]_vars

\* the requests of address a passed on in the window that started at s
PassedInWindow(a, s) ==
  {i \in 1..Len(passed[a]) : passed[a][i].start = s}

\* what address a would be counted as by its next request
Effective(store, a, now) ==
  IF store[a].count = 0 \/ Expired(store[a], now) THEN 0 ELSE store[a].count

\* One request of some address a: what the claim says about it.
C31_Request ==
  \A a \in Addresses :
    (call'.kind = "limit" /\ call'.arg = <<a>> /\ clock' = clock) =>
      LET entry == rateLimitStore[a]
          open == entry.count # 0 /\ ~Expired(entry, clock)
      IN \* a full window refuses, and refuses with 429 RATE_LIMIT_EXCEEDED
         /\ (open /\ entry.count >= LimitRequests) =>
              /\ call'.resp = [status |-> 429, code |-> "RATE_LIMIT_EXCEEDED"]
              /\ ~call'.ran
              /\ passed' = passed
         \* the window restarts only more than windowMs after its start
         /\ open => rateLimitStore'[a].startTime = entry.startTime
         \* the other addresses are counted as before, and pass nothing
         /\ \A b \in Addresses \ {a} :
              /\ passed'[b] = passed[b]
              /\ Effective(rateLimitStore', b, clock)
                   = Effective(rateLimitStore, b, clock)

\* C31: per caller address, at most maxRequests requests of one window are
\* passed on to the handlers, every further request of the address in that
\* window is refused with 429 RATE_LIMIT_EXCEEDED, a window ends only by a
\* request arriving more than windowMs after its start, and the requests of
\* one address never change how another address is counted.
C31_WindowBound ==
  /\ [](\A a \in Addresses :
          \A i \in 1..Len(passed[a]) :
            Cardinality(PassedInWindow(a, passed[a][i].start))
              <= LimitRequests)
  /\ [][C31_Request]_vars

\* a full window of one address has refused a request while the other
\* address has an open window of its own
C31_Witness ==
  /\ call.kind = "limit" /\ call.resp.status = 429
  /\ Len(passed[call.arg[1]]) >= LimitRequests
  /\ \E b \in Addresses \ {call.arg[1]} :
       Effective(rateLimitStore, b, clock) > 0

\* C38: per address, any time interval of length windowMs, aligned with a
\* window of the limiter or not, holds at most maxRequests requests that
\* were passed on to the handlers.
C38_SlidingBound ==
  \A a \in Addresses :
    \A i \in 1..Len(passed[a]) :
      Cardinality({j \in i..Len(passed[a]) :
                     passed[a][j].time - passed[a][i].time < WindowMs})
        <= LimitRequests

\* the check-in of the last call created a record and came with a token
\* that authenticateToken accepts
C32_OperatorCheckin ==
  /\ variant = "part000"
  /\ call.kind = "create" /\ call.resp.status = 200
  /\ authenticateToken(variant, call.token) = Pass

\* C32: a check-in that carries the valid token of an authenticated operator
\* stores that operator's username as created_by and writes a CREATE_VISITOR
\* audit event for it; only a check-in without an authenticated principal
\* stores the sentinel.
C32_CreatedByOperator ==
  /\ C32_OperatorCheckin =>
       /\ call.out.created_by = users[call.token.id].username
       /\ [action |-> "CREATE_VISITOR", record_id |-> call.out.id] \in audit
  /\ (variant = "part000" /\ call.kind = "create" /\ call.resp.status = 200
      /\ call.out.created_by = "system")
       => authenticateToken(variant, call.token) # Pass

\* C33: a CHECKOUT_VISITOR or UPDATE_VISITOR audit event exists only if the
\* transaction of its check-out or update committed; of an attempt whose
\* transaction was rolled back, or whose commit failed after logAudit had
\* run, no audit event remains.
C33_AuditOnlyIfCommitted ==
  \A r \in Reqs :
    (/\ variant = "part000"
     /\ req[r].kind \in {"checkout", "update"}
     /\ req[r].pc = "done"
     /\ req[r].audited = "written"
     /\ [action |-> AuditAction(req[r].kind), record_id |-> req[r].id]
          \in audit)
    => req[r].txn = "committed"

\* what the validation of POST /api/visitors demands of the columns of a row
C36_RowValid(row) ==
  /\ row.visitor_name # ""
  /\ EmailRegexTest(row.host_email)
  /\ (row.mobile = <<>> \/ TenDigits(row.mobile))

\* C36: after any sequence of check-ins and visitor updates every persisted
\* record satisfies the validation of its creation: visitor_name and purpose
\* not empty, host_email matching the email pattern, mobile absent or exactly
\* ten digits.  (purpose is carried like visitor_name and is not a column of
\* the rows followed here.)
C36_RecordsStayValid ==
  variant = "part000" =>
    \A i \in Ids : Exists(visitors[i]) => C36_RowValid(visitors[i])

\* the mail of request r was handed to transporter.sendMail
Handed35(q) == q.mail \in {"pending", "sent", "failed"}

CheckinOf(r) == variant = "part000" /\ req[r].kind = "create"

\* One step of a check-in: the notification is handed over by the step that
\* commits the insert, by no other, and is never handed over again.
C35_Handover ==
  \A r \in Reqs :
    (variant = "part000" /\ req'[r].kind = "create") =>
      /\ (~Handed35(req[r]) /\ Handed35(req'[r]))
           => /\ req[r].pc = "commit"
              /\ req'[r].txn = "committed"
              /\ Exists(visitors'[req'[r].id])
      /\ Handed35(req[r]) => Handed35(req'[r]) /\ req'[r].id = req[r].id

\* no notification for a check-in answered 4xx or 5xx or rolled back
C35_NoneWithoutCommit ==
  \A r \in Reqs :
    (CheckinOf(r) /\ (req[r].resp.status >= 400 \/ req[r].txn # "committed"))
      => ~Handed35(req[r])

\* C35 as amended: a check-in notification is handed to the mail transport
\* only by the step that commits the insert, at most once per created record
\* and exactly once unless composing the mail throws; none is handed over for
\* a request answered 4xx or 5xx or rolled back, and a check-in whose mail
\* could not be composed is still answered 200.
C35_NotifiedAfterCommit ==
  /\ [](/\ C35_NoneWithoutCommit
        /\ \A r \in Reqs :
             (CheckinOf(r) /\ req[r].txn = "committed")
               => \/ Handed35(req[r])
                  \/ /\ ComposeThrows(variant, req[r].body)
                     /\ req[r].mail = "composeError"
                     /\ req[r].resp.status = 200)
  /\ [][C35_Handover]_vars

\* C35 as stated: exactly one notification per created record, and none for
\* a request answered 4xx or 5xx or rolled back.
C35_ExactlyOnce ==
  /\ C35_NoneWithoutCommit
  /\ \A r \in Reqs :
       (CheckinOf(r) /\ req[r].txn = "committed") => Handed35(req[r])

\* one check-in was committed and notified, another was rolled back and
\* answered 500 without a notification
C35_Witness ==
  \E r, o \in Reqs :
    /\ CheckinOf(r) /\ req[r].txn = "committed" /\ req[r].mail = "sent"
    /\ CheckinOf(o) /\ req[o].txn = "rolledback" /\ req[o].resp.status = 500
    /\ req[o].mail = "none"

(***************************************************************************)
(* The start-up of the programs that retry the connection, server5.js      *)
(* among them, up to app.listen or process.exit(1).                        *)
(***************************************************************************)
InitConnect ==
  /\ InitWith({"part000", "server8", "server1b", "server5"}, {FALSE})
  /\ InitProcess("connecting")
  /\ users = InitUsers

NextConnect ==
  \/ ConnectAttempt
  \/ Backoff
  \/ Listen

SpecConnect == InitConnect /\ [][NextConnect]_vars

RECURSIVE Schedule(_)
\* 5000 * 1.5^(k-1), capped at 30000: the wait before attempt k + 1
Schedule(k) ==
  IF k = 1 THEN initialDelay
  ELSE IF (Schedule(k - 1) * 3) \div 2 < MaxDelay
    THEN (Schedule(k - 1) * 3) \div 2
  ELSE MaxDelay

\* the waits so far never decrease and never exceed the cap; attempt k + 1
\* is preceded by exactly k waits, and the final failed attempt by no other
C34_Shape ==
  /\ \A k \in 1..Len(proc.waits) :
       /\ proc.waits[k] <= MaxDelay
       /\ k > 1 => proc.waits[k - 1] <= proc.waits[k]
  /\ proc.phase \in {"connecting", "waiting", "connected"}
       => Len(proc.waits) = proc.attempt - 1
  /\ (proc.phase = "exited" /\ proc.attempt = maxRetries)
       => Len(proc.waits) = maxRetries - 1

\* C34: with the defaults the wait before attempt k + 1 of connectWithRetry
\* is min(5000 * 1.5^(k-1), 30000) ms; the waits never decrease and never
\* exceed 30000 ms, there is exactly one wait between two consecutive
\* attempts and none after the final failed attempt.
C34_BackoffSchedule ==
  /\ C34_Shape
  /\ \A k \in 1..Len(proc.waits) : proc.waits[k] = Schedule(k)

\* the same of the programs whose connectWithRetry has an initialDelay
C34_BackoffScheduleWithFactor ==
  variant # "server5" => C34_BackoffSchedule

(***************************************************************************)
(* GET /api/admin/stats of part_000, query by query.  The handler awaits   *)
(* five statements on the pool, one after the other and outside any        *)
(* transaction; each reads the committed rows of its moment, and check-ins *)
(* and check-outs commit in between.  A day is DayTicks ticks of the clock.*)
(***************************************************************************)
DayTicks == 2

\* CAST(t AS DATE)
DateOf(t) == t \div DayTicks

\* WHERE CAST(checkin_time AS DATE) = CAST(GETDATE() AS DATE)
TodayRows(now) ==
  {i \in Ids : /\ Exists(visitors[i])
               /\ DateOf(visitors[i].checkin_time) = DateOf(now)}

\* SUM(CASE WHEN status = ... THEN 1 ELSE 0 END): NULL over no rows
SumCase(R, status) ==
  IF R = {} THEN Null
  ELSE Cardinality({i \in R : visitors[i].status = status})

TodayStats(now) ==
  [total_today |-> Cardinality(TodayRows(now)),
   active_visitors |-> SumCase(TodayRows(now), "checked_in"),
   checked_out_today |-> SumCase(TodayRows(now), "checked_out")]

AllTimeStats ==
  [total_all |-> Cardinality({i \in Ids : Exists(visitors[i])})]

StatsQueries == <<"today", "week", "month", "allTime", "topHosts">>

NoStats == [today |-> <<>>, allTime |-> <<>>]

\* The next statement of the stats request, the first one when none is
\* running; after the last one the response is sent.  A statement that
\* fails lands in the catch block: 500 STATS_ERROR.
StatsQuery ==
  LET running == call.kind = "stats" /\ call.resp = Pass
      c == IF running THEN call
           ELSE [NoCall EXCEPT !.kind = "stats", !.ran = TRUE,
                               !.arg = <<0>>, !.out = NoStats]
      n == c.arg[1] + 1
      out == CASE StatsQueries[n] = "today" ->
                    [c.out EXCEPT !.today = TodayStats(clock)]
               [] StatsQueries[n] = "allTime" ->
                    [c.out EXCEPT !.allTime = AllTimeStats]
               [] OTHER -> c.out
  IN /\ variant = "part000"
     /\ calls < MaxCalls
     /\ \/ /\ StoreUp
           /\ call' = IF n = Len(StatsQueries)
                      THEN Ended([c EXCEPT !.arg = <<n>>], 200, "OK", out)
                      ELSE [c EXCEPT !.arg = <<n>>, !.out = out]
        \/ call' = Ended(c, 500, "STATS_ERROR", NoStats)
     /\ calls' = IF call'.resp = Pass THEN calls ELSE calls + 1
     /\ UNCHANGED <<proc, pool, users, rateLimitStore, passed>>
     /\ UNCHANGED <<variant, sendCheckoutEmails, clock, visitors, nextId, txw,
                    req, audit, stamps, started>>

InitStats ==
  /\ InitWith({"part000"}, {FALSE})
  /\ InitProcess("listening")
  /\ users = InitUsers

NextStats ==
  \/ StatsQuery
  \/ Tick
  \/ \E b \in {Alice} : CreateArrive(b)
  \/ \E i \in Targets : CheckoutArrive(i)
  \/ \E r \in Reqs : CreateInsert(r)
  \/ \E r \in Reqs : CheckoutSelect(r)
  \/ \E r \in Reqs : CheckoutUpdate(r)
  \/ \E r \in Reqs : LogAudit(r)
  \/ \E r \in Reqs : Commit(r)

SpecStats == InitStats /\ [][NextStats]_vars

\* a stats request answered 200
StatsAnswered == call.kind = "stats" /\ call.resp.status = 200

\* C37: every response of GET /api/admin/stats is consistent in itself, also
\* when check-ins and check-outs commit between its queries:
\* today.total_today = today.active_visitors + today.checked_out_today, and
\* today.total_today <= allTime.total_all.
C37_StatsConsistent ==
  StatsAnswered =>
    /\ call.out.today.active_visitors # Null
    /\ call.out.today.checked_out_today # Null
    /\ call.out.today.total_today
         = call.out.today.active_visitors + call.out.today.checked_out_today
    /\ call.out.today.total_today <= call.out.allTime.total_all

\* the same of the responses with a check-in of today: what the queries
\* read between two commits never disagrees
C37_ConsistentIfAnyToday ==
  (StatsAnswered /\ call.out.today.total_today > 0) =>
    /\ call.out.today.total_today
         = call.out.today.active_visitors + call.out.today.checked_out_today
    /\ call.out.today.total_today <= call.out.allTime.total_all

\* a check-in committed between the today query and the all-time query
C37_Interleaved ==
  /\ StatsAnswered
  /\ call.out.today.total_today > 0
  /\ call.out.today.total_today < call.out.allTime.total_all

(***************************************************************************)
(* The connections of the pool.  SQL_CONFIG.pool.max bounds them (PoolMax  *)
(* here).  transaction.begin() takes one and keeps it until the commit or  *)
(* the rollback; sqlPool.request().query(), which logAudit uses, takes one *)
(* for the statement.  An acquire that finds no free connection waits, and *)
(* fails after acquireTimeoutMillis if none was released.                  *)
(***************************************************************************)
PoolMax == 2

\* the requests whose transaction holds a connection
Holding == {r \in Reqs : req[r].txn = "active"}

PoolFree == PoolMax - Cardinality(Holding)

\* await logAudit(...) of a check-out or update, with the store failing in
\* no other way than by the pool: the insert is written if a connection is
\* free, and the acquire times out if none is.
LogAuditPooled(r) ==
  /\ LogAudit(r)
  /\ req'[r].audited = IF PoolFree > 0 THEN "written" ELSE "failed"

InitPool ==
  /\ InitWith({"part000"}, {FALSE})
  /\ InitProcess("listening")
  /\ users = InitUsers

\* A request whose transaction.begin() finds no free connection waits.
NextPool ==
  \/ PoolFree > 0 /\ \E i \in Targets : CheckoutArrive(i)
  \/ PoolFree > 0 /\ \E i \in Targets, b \in UpdateBodies : UpdateArrive(i, b)
  \/ \E r \in Reqs : CheckoutSelect(r)
  \/ \E r \in Reqs : CheckoutUpdate(r)
  \/ \E r \in Reqs : UpdateSelect(r)
  \/ \E r \in Reqs : UpdateWrite(r)
  \/ \E r \in Reqs : LogAuditPooled(r)
  \/ \E r \in Reqs : Commit(r)

SpecPool == InitPool /\ [][NextPool]_vars

\* C39: no hold-and-wait on the connections of the pool: with a pool of
\* maximum size N, N concurrent check-out or update requests that each hold
\* the connection of their transaction all obtain the connection logAudit
\* needs, so each of them that commits has its audit event written, none of
\* them depending on an acquire timeout.
C39_NoHoldAndWait ==
  /\ PoolFree >= 0
  /\ \A r \in Reqs :
       (req[r].kind \in {"checkout", "update"} /\ req[r].audited # "none")
         => req[r].audited = "written"

==============================================================================
